---- MODULE Spec2Model ----
(***************************************************************************)
(* Lexer, runner and context pass of closure-linter (JavaScript port).     *)
(*                                                                         *)
(* Source text is a sequence of symbols.  A symbol is one character, or    *)
(* one of the words "function" and "param" taken as a unit (a run of       *)
(* letters the matchers can only take whole or as part of a longer run of  *)
(* identifier characters).  A token's string is the sequence of symbols    *)
(* it covers.  Token handles are positions in the chain (1..), context     *)
(* handles are creation numbers (1 is ROOT); Null is the null reference.   *)
(***************************************************************************)
EXTENDS Integers, Sequences, FiniteSets, TLC

VARIABLES
    \* ---- Tokenizer (src/common/tokenizer.js) and run() (src/lib/runner.js)
    source,       \* the text handed to run() / tokenizeFile
    rpc,          \* position inside run(): "start","lex","report","done"
    lpc,          \* position inside tokenizeFile: "idle","line","scan","done"
    mode,         \* Tokenizer.mode
    lineNumber,   \* Tokenizer._lineNumber
    string,       \* the stripped text of the line being scanned
    index,        \* index into string (0-based, as in the source)
    normalToken,  \* pending run of unmatched symbols
    startIndex,   \* Tokenizer._startIndex
    firstToken,   \* Tokenizer._firstToken
    lastToken,    \* Tokenizer._lastToken
    tokens,       \* the token objects, by handle
    events,       \* calls received by the error handler, in order
    \* ---- EcmaMetaDataPass (src/unnamed/part_005)
    ppc,          \* position inside process(): "idle","loop","final","done",
                  \*   "ParseError","TypeError"
    token,        \* EcmaMetaDataPass._token
    context,      \* EcmaMetaDataPass._context
    lastCode,     \* EcmaMetaDataPass._lastCode
    contexts,     \* the EcmaContext objects, by handle
    metadata,     \* token handle -> EcmaMetaData (Null before the pass)
    errorToken,   \* ParseError.token of the raised error
    firstRun,     \* result of the first pass, kept for the comparison run
    \* ---- StateTracker (src/unnamed/part_004) under _executePass
    trk,          \* the checker's state tracker and the position inside
                  \*   _executePass (Null while no checker exists)
    \* ---- token navigation helpers (src/lib/tokenutil.js)
    nav,          \* the helper call made on the chain and what it returned
    \* ---- earlier tokenizeFile calls on the same Tokenizer
    files         \* text and result of each call that has returned

lexVars == <<source, rpc, lpc, mode, lineNumber, string, index, normalToken,
             startIndex, firstToken, lastToken, events>>
passVars == <<ppc, token, context, lastCode, contexts, metadata, errorToken,
              firstRun, trk, nav, files>>
vars == <<source, rpc, lpc, mode, lineNumber, string, index, normalToken,
          startIndex, firstToken, lastToken, tokens, events,
          ppc, token, context, lastCode, contexts, metadata, errorToken,
          firstRun, trk, nav, files>>

Null == 0

\* trk while no checker has been constructed
NoChecker == [pc |-> "none"]

\* nav while no helper has been called
NoCall == [fn |-> "none"]

\* ------------------------------------------------------------------ bounds
MaxLen == 3

\* ----------------------------------------------------------- sequence help
SeqsUpTo(S, n) == UNION {[1..k -> S] : k \in 0..n}

Drop(s, n) == SubSeq(s, n + 1, Len(s))

Take(s, n) == SubSeq(s, 1, n)

MinOf(S) == CHOOSE x \in S : \A y \in S : x <= y

MaxOf(S) == CHOOSE x \in S : \A y \in S : x >= y

\* Number of leading elements of s that belong to C.
RunLen(s, C) ==
    LET stops == {j \in 1..Len(s) : s[j] \notin C}
    IN  IF stops = {} THEN Len(s) ELSE MinOf(stops) - 1

HasPrefix(s, p) == Len(s) >= Len(p) /\ Take(s, Len(p)) = p

\* Length in characters of a symbol / of a token string.
SymLen(c) ==
    CASE c \in {"function", "continue"} -> 8
      [] c \in {"default", "finally"} -> 7
      [] c \in {"return", "switch", "delete", "typeof"} -> 6
      [] c \in {"param", "break", "catch", "throw", "while"} -> 5
      [] c \in {"case", "else", "with", "void"} -> 4
      [] c \in {"for", "try", "var", "new", "foo"} -> 3
      [] c \in {"do", "if", "in"} -> 2
      [] c = "instanceof" -> 10
      [] OTHER -> 1

RECURSIVE StrLen(_)
StrLen(s) == IF s = <<>> THEN 0 ELSE SymLen(s[1]) + StrLen(Drop(s, 1))

\* --------------------------------------------------- character classes
Space == {" ", "\r", "\f", "\n", "\t"}         \* \s
LineTerminators == {"\n", "\r"}                 \* what . does not match
Letters ==                                     \* [a-zA-Z]+
    {"a", "b", "c", "x", "foo", "function", "param", "fileoverview",
     "break", "case", "catch", "continue",
     "default", "do", "else", "finally", "for", "if", "return", "switch",
     "throw", "try", "var", "while", "with", "delete", "in", "instanceof",
     "new", "typeof", "void"}
IdentStart == Letters \cup {"_", "$"}          \* [a-zA-Z_$]
IdentChars == IdentStart \cup {"."}            \* [A-Za-z0-9_$\.]
WordChars == Letters \cup {"_"}                \* \w
NoMatch == 0 - 1

Digits == {"0", "1", "2", "3"}                        \* \d
HexDigits == Digits \cup {"a", "b", "c"}            \* [0-9a-fA-F]

RunLenNot(s, X) ==
    LET stops == {j \in 1..Len(s) : s[j] \in X}
    IN  IF stops = {} THEN Len(s) ELSE MinOf(stops) - 1

At(s, i) == IF i >= 1 /\ i <= Len(s) THEN s[i] ELSE "<end>"

\* ------------------------------------------- regular expressions
\* Each operator gives the length (in symbols) of the match of the named
\* pattern at offset 0 of s, or NoMatch.  The tokenizer only accepts a match
\* whose index is 0.
LitLen(s, p) == IF HasPrefix(s, p) THEN Len(p) ELSE NoMatch

Positive(n) == IF n >= 1 THEN n ELSE NoMatch

\* ([^'\\]|\\(.|$))+   and the double-quote twin
RECURSIVE QuoteTextScan(_, _, _)
QuoteTextScan(s, q, i) ==
    IF i >= Len(s) THEN i
    ELSE IF s[i + 1] \notin {q, "\\"} THEN QuoteTextScan(s, q, i + 1)
    ELSE IF s[i + 1] = "\\"
         THEN IF i + 1 = Len(s) THEN i + 1
              ELSE IF s[i + 2] \notin LineTerminators
                   THEN QuoteTextScan(s, q, i + 2)
                   ELSE i
    ELSE i

SINGLE_QUOTE_TEXT(s) == Positive(QuoteTextScan(s, "'", 0))

DOUBLE_QUOTE_TEXT(s) == Positive(QuoteTextScan(s, "\"", 0))

\* ([^\*]|\*(?!\/))+
RECURSIVE BlockCommentScan(_, _)
BlockCommentScan(s, i) ==
    IF i >= Len(s) THEN i
    ELSE IF s[i + 1] # "*" THEN BlockCommentScan(s, i + 1)
    ELSE IF At(s, i + 2) = "/" THEN i
    ELSE BlockCommentScan(s, i + 1)

BLOCK_COMMENT_TEXT(s) == Positive(BlockCommentScan(s, 0))

\* ([^\*\{}\s]@|[^\*\{}@]|\*(?!\/))+  ; with noSpaces the second
\* alternative is [^\*\{}@\s]
RECURSIVE DocCommentScan(_, _, _)
DocCommentScan(s, noSpaces, i) ==
    IF i >= Len(s) THEN i
    ELSE LET c == s[i + 1]
         IN  IF c \notin ({"*", "{", "}"} \cup Space) /\ At(s, i + 2) = "@"
             THEN DocCommentScan(s, noSpaces, i + 2)
             ELSE IF c \notin {"*", "{", "}", "@"}
                     /\ (noSpaces => c \notin Space)
             THEN DocCommentScan(s, noSpaces, i + 1)
             ELSE IF c = "*" /\ At(s, i + 2) # "/"
             THEN DocCommentScan(s, noSpaces, i + 1)
             ELSE i

DOC_COMMENT_TEXT(s) == Positive(DocCommentScan(s, FALSE, 0))

DOC_COMMENT_NO_SPACES_TEXT(s) == Positive(DocCommentScan(s, TRUE, 0))

\* \s*\*(\s+|(?!\/))
DOC_PREFIX(s) ==
    LET k == RunLen(s, Space)
        r == Drop(s, k + 1)
        w == RunLen(r, Space)
    IN  IF At(s, k + 1) # "*" THEN NoMatch
        ELSE IF w >= 1 THEN k + 1 + w
        ELSE IF At(r, 1) = "/" THEN NoMatch
        ELSE k + 1

\* (^|(?:\s))@([a-zA-Z]+)   (^ is the start of the substring handed to exec)
DOC_FLAG(s) ==
    LET pre == IF At(s, 1) = "@" THEN 0
               ELSE IF At(s, 1) \in Space /\ At(s, 2) = "@" THEN 1
               ELSE NoMatch
        n == IF pre = NoMatch THEN 0 ELSE RunLen(Drop(s, pre + 1), Letters)
    IN  IF pre = NoMatch \/ n = 0 THEN NoMatch ELSE pre + 1 + n

\* (^|(?:\s))@(param)\b
DOC_FLAG_LEX_SPACES(s) ==
    LET pre == IF At(s, 1) = "@" THEN 0
               ELSE IF At(s, 1) \in Space /\ At(s, 2) = "@" THEN 1
               ELSE NoMatch
    IN  IF pre # NoMatch /\ At(s, pre + 2) = "param"
           /\ At(s, pre + 3) \notin (WordChars \cup Digits)
        THEN pre + 2 ELSE NoMatch

\* (?:\{)@([a-zA-Z]+)
DOC_INLINE_FLAG(s) ==
    LET n == RunLen(Drop(s, 2), Letters)
    IN  IF At(s, 1) = "{" /\ At(s, 2) = "@" /\ n >= 1 THEN 2 + n ELSE NoMatch

\* POST_REGEX_LIST joined by | : ; , \. \) ] $ // /* : }   The entry '/*'
\* is not escaped, so as a pattern it is "zero or more slashes".
PostRegexLookahead(r) ==
    LET t == Drop(r, RunLen(r, Space))
    IN  \/ At(t, 1) \in {";", ",", ".", ")", "]", ":", "}"}
        \/ t = <<>>
        \/ HasPrefix(t, <<"/", "/">>)
        \/ RunLen(t, {"/"}) >= 0

\* \[([^\]\\]|\\.)*\]  from offset i (s[i+1] = "["); the offset after the
\* class, or NoMatch
RECURSIVE RegexClassScan(_, _)
RegexClassScan(s, i) ==
    IF i >= Len(s) THEN NoMatch
    ELSE IF s[i + 1] = "]" THEN i + 1
    ELSE IF s[i + 1] = "\\"
         THEN IF i + 2 <= Len(s) /\ s[i + 2] \notin LineTerminators
              THEN RegexClassScan(s, i + 2) ELSE NoMatch
    ELSE RegexClassScan(s, i + 1)

\* (\\.|[^\[\/\\]|(class))*/[gimsx]*(?=...)  from offset i
RECURSIVE RegexBodyScan(_, _)
RegexBodyScan(s, i) ==
    IF i >= Len(s) THEN NoMatch
    ELSE LET c == s[i + 1]
         IN  IF c = "\\"
             THEN IF i + 2 <= Len(s) /\ s[i + 2] \notin LineTerminators
                  THEN RegexBodyScan(s, i + 2) ELSE NoMatch
             ELSE IF c = "["
             THEN LET j == RegexClassScan(s, i + 1)
                  IN  IF j = NoMatch THEN NoMatch ELSE RegexBodyScan(s, j)
             ELSE IF c = "/"
             THEN LET f == RunLen(Drop(s, i + 1), {"g", "i", "m", "s", "x"})
                  IN  IF PostRegexLookahead(Drop(s, i + 1 + f))
                      THEN i + 1 + f ELSE NoMatch
             ELSE RegexBodyScan(s, i + 1)

\* /(?!\*) body / flags lookahead
REGEX(s) ==
    IF At(s, 1) = "/" /\ At(s, 2) # "*" THEN RegexBodyScan(s, 1) ELSE NoMatch

\* [a-zA-Z_$][A-Za-z0-9_$\..]*
IDENTIFIER(s) ==
    IF At(s, 1) \in IdentStart
    THEN 1 + RunLen(Drop(s, 1), IdentChars \cup Digits)
    ELSE NoMatch

\* (identifier)(?=\s*\=(?!=))
SIMPLE_LVALUE(s) ==
    LET n == IDENTIFIER(s)
        r == IF n = NoMatch THEN <<>> ELSE Drop(s, n)
        t == Drop(r, RunLen(r, Space))
    IN  IF n # NoMatch /\ At(t, 1) = "=" /\ At(t, 2) # "="
        THEN n ELSE NoMatch

KEYWORD_LIST == <<"break", "case", "catch", "continue", "default", "do",
    "else", "finally", "for", "if", "return", "switch", "throw", "try",
    "var", "while", "with">>

\* (break|case|...)((?=[^A-Za-z0-9_$\.])|$) ; a keyword is one symbol
KEYWORD(s) ==
    IF (\E k \in 1..Len(KEYWORD_LIST) : At(s, 1) = KEYWORD_LIST[k])
       /\ At(s, 2) \notin (IdentChars \cup Digits)
    THEN 1 ELSE NoMatch

\* OPERATOR_LIST, in order; the word operators are one symbol each and
\* carry \b on both sides
OPERATOR_LIST == << <<",">>, <<"+", "+">>, <<"=", "=", "=">>,
    <<"!", "=", "=">>, <<">", ">", ">", "=">>, <<">", ">", ">">>,
    <<"=", "=">>, <<">", "=">>, <<"<", "=">>, <<"!", "=">>,
    <<"<", "<", "=">>, <<">", ">", "=">>, <<"<", "<">>, <<">", ">">>,
    <<">">>, <<"<">>, <<"+", "=">>, <<"+">>, <<"-", "-">>, <<"^", "=">>,
    <<"-", "=">>, <<"-">>, <<"/", "=">>, <<"/">>, <<"*", "=">>, <<"*">>,
    <<"%", "=">>, <<"%">>, <<"&", "&">>, <<"|", "|">>, <<"&", "=">>,
    <<"&">>, <<"|", "=">>, <<"|">>, <<"=">>, <<"!">>, <<":">>, <<"?">>,
    <<"^">>, <<"delete">>, <<"in">>, <<"instanceof">>, <<"new">>,
    <<"typeof">>, <<"void">> >>

OperatorWords == {"delete", "in", "instanceof", "new", "typeof", "void"}

OPERATOR(s) ==
    LET hits == {k \in 1..Len(OPERATOR_LIST) :
                    /\ HasPrefix(s, OPERATOR_LIST[k])
                    /\ (OPERATOR_LIST[k][1] \in OperatorWords
                          => At(s, 2) \notin (WordChars \cup Digits))}
    IN  IF hits = {} THEN NoMatch ELSE Len(OPERATOR_LIST[MinOf(hits)])

\* ((0[xX][0-9a-fA-F]+)|((MANTISSA)([eE][-+]?\d+)?)) where MANTISSA is
\* '(\d+(?!\.)) |(\d+\.(?!\d)) |(\d*\.\d+)': the blanks before each | are
\* part of the pattern.
NUMBER(s) ==
    LET d == RunLen(s, Digits)
        h == RunLen(Drop(s, 2), HexDigits)
        e == RunLen(Drop(s, d + 1), Digits)
        m == IF d >= 1 /\ At(s, d + 1) = " " THEN d + 1
             ELSE IF d >= 1 /\ At(s, d + 1) = "." /\ At(s, d + 2) = " "
                  THEN d + 2
             ELSE IF At(s, d + 1) = "." /\ e >= 1 THEN d + 1 + e
             ELSE NoMatch
        sign == IF m # NoMatch /\ At(s, m + 2) \in {"-", "+"} THEN 1 ELSE 0
        x == IF m = NoMatch THEN 0 ELSE RunLen(Drop(s, m + 1 + sign), Digits)
    IN  IF At(s, 1) = "0" /\ At(s, 2) \in {"x", "X"} /\ h >= 1 THEN 2 + h
        ELSE IF m = NoMatch THEN NoMatch
        ELSE IF At(s, m + 1) \in {"e", "E"} /\ x >= 1 THEN m + 1 + sign + x
        ELSE m

\* \bfunction\b ; exec sees only the substring, so the left \b always holds
FUNCTION_DECLARATION(s) ==
    IF At(s, 1) = "function" /\ At(s, 2) \notin (WordChars \cup Digits)
    THEN 1 ELSE NoMatch

RegexLen(regex, s) ==
    CASE regex = "START_DOC_COMMENT" -> LitLen(s, <<"/", "*", "*">>)
      [] regex = "START_BLOCK_COMMENT" -> LitLen(s, <<"/", "*">>)
      [] regex = "END_BLOCK_COMMENT" -> LitLen(s, <<"*", "/">>)
      [] regex = "END_OF_LINE_SINGLE_LINE_COMMENT" ->
            IF s = <<"/", "/">> THEN 2 ELSE NoMatch
      [] regex = "START_SINGLE_LINE_COMMENT" -> LitLen(s, <<"/", "/">>)
      [] regex = "SINGLE_QUOTE" -> LitLen(s, <<"'">>)
      [] regex = "DOUBLE_QUOTE" -> LitLen(s, <<"\"">>)
      [] regex = "SINGLE_QUOTE_TEXT" -> SINGLE_QUOTE_TEXT(s)
      [] regex = "DOUBLE_QUOTE_TEXT" -> DOUBLE_QUOTE_TEXT(s)
      [] regex = "BLOCK_COMMENT_TEXT" -> BLOCK_COMMENT_TEXT(s)
      [] regex = "DOC_COMMENT_TEXT" -> DOC_COMMENT_TEXT(s)
      [] regex = "DOC_COMMENT_NO_SPACES_TEXT" -> DOC_COMMENT_NO_SPACES_TEXT(s)
      [] regex = "DOC_PREFIX" -> DOC_PREFIX(s)
      [] regex = "DOC_FLAG" -> DOC_FLAG(s)
      [] regex = "DOC_FLAG_LEX_SPACES" -> DOC_FLAG_LEX_SPACES(s)
      [] regex = "DOC_INLINE_FLAG" -> DOC_INLINE_FLAG(s)
      [] regex = "REGEX" -> REGEX(s)
      [] regex = "START_BLOCK" -> LitLen(s, <<"{">>)
      [] regex = "END_BLOCK" -> LitLen(s, <<"}">>)
      [] regex = "FUNCTION_DECLARATION" -> FUNCTION_DECLARATION(s)
      [] regex = "OPENING_PAREN" -> LitLen(s, <<"(">>)
      [] regex = "CLOSING_PAREN" -> LitLen(s, <<")">>)
      [] regex = "OPENING_BRACKET" -> LitLen(s, <<"[">>)
      [] regex = "CLOSING_BRACKET" -> LitLen(s, <<"]">>)
      [] regex = "NUMBER" -> NUMBER(s)
      [] regex = "SIMPLE_LVALUE" -> SIMPLE_LVALUE(s)
      [] regex = "OPERATOR" -> OPERATOR(s)
      [] regex = "KEYWORD" -> KEYWORD(s)
      [] regex = "WHITESPACE" -> Positive(RunLen(s, Space))
      [] regex = "IDENTIFIER" -> IDENTIFIER(s)
      [] regex = "SEMICOLON" -> LitLen(s, <<";">>)
      [] regex = "ANYTHING" -> RunLenNot(s, LineTerminators)
      [] regex = "PARAMETERS" -> Positive(RunLenNot(s, {")"}))
      [] regex = "CLOSING_PAREN_WITH_SPACE" ->
            IF At(s, 1) = ")" THEN 1 + RunLen(Drop(s, 1), Space) ELSE NoMatch

\* ------------------------------------------------ matchers by mode
\* Variant: the ANYTHING matcher leaves the mode as it is.
MatcherKeepsMode(regex, tokenType, opt_resultMode, opt_lineStart) ==
    [regex |-> regex, type |-> tokenType,
     resultMode |-> IF regex = "ANYTHING" THEN "null" ELSE opt_resultMode,
     lineStart |-> opt_lineStart]

\* Variant: the end of a doc comment leaves the mode as it is.
MatcherDocCommentStays(regex, tokenType, opt_resultMode, opt_lineStart) ==
    [regex |-> regex, type |-> tokenType,
     resultMode |-> IF tokenType = "END_DOC_COMMENT" THEN "null"
                    ELSE opt_resultMode,
     lineStart |-> opt_lineStart]

\* Variant: a '//' at the end of its line enters line-comment mode too.
MatcherEndOfLineEnters(regex, tokenType, opt_resultMode, opt_lineStart) ==
    [regex |-> regex, type |-> tokenType,
     resultMode |-> IF regex = "END_OF_LINE_SINGLE_LINE_COMMENT"
                    THEN "LINE_COMMENT_MODE" ELSE opt_resultMode,
     lineStart |-> opt_lineStart]

Matcher(regex, tokenType, opt_resultMode, opt_lineStart) ==
    [regex |-> regex, type |-> tokenType, resultMode |-> opt_resultMode,
     lineStart |-> opt_lineStart]

NoMode == "null"

COMMON_DOC_MATCHERS == <<
    Matcher("END_BLOCK_COMMENT", "END_DOC_COMMENT", "TEXT_MODE", FALSE),
    Matcher("DOC_INLINE_FLAG", "DOC_INLINE_FLAG", NoMode, FALSE),
    Matcher("DOC_FLAG_LEX_SPACES", "DOC_FLAG",
            "DOC_COMMENT_LEX_SPACES_MODE", FALSE),
    Matcher("DOC_FLAG", "DOC_FLAG", "DOC_COMMENT_MODE", FALSE),
    Matcher("START_BLOCK", "DOC_START_BRACE", NoMode, FALSE),
    Matcher("END_BLOCK", "DOC_END_BRACE", NoMode, FALSE),
    Matcher("DOC_PREFIX", "DOC_PREFIX", NoMode, TRUE) >>

TEXT_MODE_MATCHERS == <<
    Matcher("START_DOC_COMMENT", "START_DOC_COMMENT", "DOC_COMMENT_MODE",
            FALSE),
    Matcher("START_BLOCK_COMMENT", "START_BLOCK_COMMENT",
            "BLOCK_COMMENT_MODE", FALSE),
    Matcher("END_OF_LINE_SINGLE_LINE_COMMENT", "START_SINGLE_LINE_COMMENT",
            NoMode, FALSE),
    Matcher("START_SINGLE_LINE_COMMENT", "START_SINGLE_LINE_COMMENT",
            "LINE_COMMENT_MODE", FALSE),
    Matcher("SINGLE_QUOTE", "SINGLE_QUOTE_STRING_START",
            "SINGLE_QUOTE_STRING_MODE", FALSE),
    Matcher("DOUBLE_QUOTE", "DOUBLE_QUOTE_STRING_START",
            "DOUBLE_QUOTE_STRING_MODE", FALSE),
    Matcher("REGEX", "REGEX", NoMode, FALSE),
    Matcher("START_BLOCK", "START_BLOCK", NoMode, FALSE),
    Matcher("END_BLOCK", "END_BLOCK", NoMode, FALSE),
    Matcher("FUNCTION_DECLARATION", "FUNCTION_DECLARATION", "FUNCTION_MODE",
            FALSE),
    Matcher("OPENING_PAREN", "START_PAREN", NoMode, FALSE),
    Matcher("CLOSING_PAREN", "END_PAREN", NoMode, FALSE),
    Matcher("OPENING_BRACKET", "START_BRACKET", NoMode, FALSE),
    Matcher("CLOSING_BRACKET", "END_BRACKET", NoMode, FALSE),
    Matcher("NUMBER", "NUMBER", NoMode, FALSE),
    Matcher("SIMPLE_LVALUE", "SIMPLE_LVALUE", NoMode, FALSE),
    Matcher("OPERATOR", "OPERATOR", NoMode, FALSE),
    Matcher("KEYWORD", "KEYWORD", NoMode, FALSE),
    Matcher("WHITESPACE", "WHITESPACE", NoMode, FALSE),
    Matcher("IDENTIFIER", "IDENTIFIER", NoMode, FALSE),
    Matcher("SEMICOLON", "SEMICOLON", NoMode, FALSE) >>

JAVASCRIPT_MATCHERS(m) ==
    CASE m = "TEXT_MODE" -> TEXT_MODE_MATCHERS
      [] m = "SINGLE_QUOTE_STRING_MODE" -> <<
            Matcher("SINGLE_QUOTE_TEXT", "STRING_TEXT", NoMode, FALSE),
            Matcher("SINGLE_QUOTE", "SINGLE_QUOTE_STRING_END", "TEXT_MODE",
                    FALSE) >>
      [] m = "DOUBLE_QUOTE_STRING_MODE" -> <<
            Matcher("DOUBLE_QUOTE_TEXT", "STRING_TEXT", NoMode, FALSE),
            Matcher("DOUBLE_QUOTE", "DOUBLE_QUOTE_STRING_END", "TEXT_MODE",
                    FALSE) >>
      [] m = "BLOCK_COMMENT_MODE" -> <<
            Matcher("END_BLOCK_COMMENT", "END_BLOCK_COMMENT", "TEXT_MODE",
                    FALSE),
            Matcher("BLOCK_COMMENT_TEXT", "COMMENT", NoMode, FALSE) >>
      [] m = "DOC_COMMENT_MODE" ->
            Append(COMMON_DOC_MATCHERS,
                   Matcher("DOC_COMMENT_TEXT", "COMMENT", NoMode, FALSE))
      [] m = "DOC_COMMENT_LEX_SPACES_MODE" ->
            COMMON_DOC_MATCHERS \o <<
                Matcher("WHITESPACE", "COMMENT", NoMode, FALSE),
                Matcher("DOC_COMMENT_NO_SPACES_TEXT", "COMMENT", NoMode,
                        FALSE) >>
      [] m = "LINE_COMMENT_MODE" -> <<
            Matcher("ANYTHING", "COMMENT", "TEXT_MODE", FALSE) >>
      [] m = "FUNCTION_MODE" -> <<
            Matcher("OPENING_PAREN", "START_PARAMETERS", "PARAMETER_MODE",
                    FALSE),
            Matcher("WHITESPACE", "WHITESPACE", NoMode, FALSE),
            Matcher("IDENTIFIER", "FUNCTION_NAME", NoMode, FALSE) >>
      [] m = "PARAMETER_MODE" -> <<
            Matcher("CLOSING_PAREN_WITH_SPACE", "END_PARAMETERS",
                    "TEXT_MODE", FALSE),
            Matcher("PARAMETERS", "PARAMETERS", "PARAMETER_MODE", FALSE) >>

\* mode -> default type, as a set of key/value pairs
JAVASCRIPT_DEFAULT_TYPES ==
    {<<"DOC_COMMENT_MODE", "COMMENT">>,
     <<"DOC_COMMENT_LEX_SPACES_MODE", "COMMENT">>}

\* _.contains(obj, value): whether value is one of the VALUES of obj
UnderscoreContains(obj, value) == \E kv \in obj : kv[2] = value

\* ------------------------------------------------------- Tokenizer
Token(str, tokenType, ln) ==
    [type |-> tokenType, string |-> str, length |-> StrLen(str),
     lineNumber |-> ln, startIndex |-> Null, previous |-> Null,
     next |-> Null]

\* The part of the tokenizer state _addToken works on.
Chain == [tokens |-> tokens, firstToken |-> firstToken,
          lastToken |-> lastToken, startIndex |-> startIndex]

_addToken(c, tok) ==
    LET h == Len(c.tokens) + 1
        linked == IF c.firstToken = Null THEN c.tokens
                  ELSE [c.tokens EXCEPT ![c.lastToken].next = h]
        t == [tok EXCEPT !.previous = c.lastToken,
                         !.startIndex = c.startIndex]
    IN  [tokens |-> Append(linked, t),
         firstToken |-> IF c.firstToken = Null THEN h ELSE c.firstToken,
         lastToken |-> h,
         startIndex |-> c.startIndex + tok.length]

_createNormalToken(m, str, ln) ==
    LET type == IF UnderscoreContains(JAVASCRIPT_DEFAULT_TYPES, m)
                THEN (CHOOSE kv \in JAVASCRIPT_DEFAULT_TYPES : kv[1] = m)[2]
                ELSE "NORMAL"
    IN  Token(str, type, ln)

\* file.split('\n')
RECURSIVE Split(_)
Split(text) ==
    LET k == RunLenNot(text, {"\n"})
    IN  IF k = Len(text) THEN <<text>>
        ELSE <<Take(text, k)>> \o Split(Drop(text, k + 1))

\* _s.rstrip(line, '\n\r\f')
RECURSIVE rstrip(_)
rstrip(line) ==
    IF line # <<>> /\ line[Len(line)] \in {"\n", "\r", "\f"}
    THEN rstrip(Take(line, Len(line) - 1))
    ELSE line

SetChain(c) ==
    /\ tokens' = c.tokens
    /\ firstToken' = c.firstToken
    /\ lastToken' = c.lastToken
    /\ startIndex' = c.startIndex

\* tokenizeFile with the mode set by the constructor only
tokenizeFileKeepsMode ==
    /\ rpc = "lex" /\ lpc = "idle"
    /\ mode' = IF mode = NoMode THEN "TEXT_MODE" ELSE mode
    /\ firstToken' = Null
    /\ lastToken' = Null
    /\ tokens' = <<>>
    /\ lineNumber' = 0
    /\ lpc' = "line"
    /\ UNCHANGED <<source, rpc, string, index, normalToken, startIndex,
                   events>>
    /\ UNCHANGED passVars

\* tokenizeFile, lines 36-39: state reset before the first line
tokenizeFile ==
    /\ rpc = "lex" /\ lpc = "idle"
    /\ mode' = "TEXT_MODE"
    /\ firstToken' = Null
    /\ lastToken' = Null
    /\ tokens' = <<>>
    /\ lineNumber' = 0
    /\ lpc' = "line"
    /\ UNCHANGED <<source, rpc, string, index, normalToken, startIndex,
                   events>>
    /\ UNCHANGED passVars

\* Variant: every line starts again in text mode.
TokenizeLineResetsMode ==
    /\ rpc = "lex" /\ lpc = "line"
    /\ IF lineNumber >= Len(Split(source))
       THEN /\ lpc' = "done"
            /\ UNCHANGED <<lineNumber, string, index, normalToken,
                           startIndex, firstToken, lastToken, tokens, mode>>
       ELSE LET line == Split(source)[lineNumber + 1]
                str == rstrip(line)
                c0 == [Chain EXCEPT !.startIndex = 0]
            IN  /\ lineNumber' = lineNumber + 1
                /\ string' = str
                /\ index' = 0
                /\ normalToken' = <<>>
                /\ mode' = "TEXT_MODE"
                /\ IF str = <<>>
                   THEN /\ SetChain(_addToken(c0,
                                Token(<<>>, "BLANK_LINE", lineNumber + 1)))
                        /\ lpc' = "line"
                   ELSE /\ SetChain(c0)
                        /\ lpc' = "scan"
    /\ UNCHANGED <<source, rpc, events>>
    /\ UNCHANGED passVars

\* Variant: a line that is empty once stripped gives no token.
TokenizeLineSkipsBlank ==
    /\ rpc = "lex" /\ lpc = "line"
    /\ IF lineNumber >= Len(Split(source))
       THEN /\ lpc' = "done"
            /\ UNCHANGED <<lineNumber, string, index, normalToken,
                           startIndex, firstToken, lastToken, tokens>>
       ELSE LET line == Split(source)[lineNumber + 1]
                str == rstrip(line)
                c0 == [Chain EXCEPT !.startIndex = 0]
            IN  /\ lineNumber' = lineNumber + 1
                /\ string' = str
                /\ index' = 0
                /\ normalToken' = <<>>
                /\ SetChain(c0)
                /\ lpc' = IF str = <<>> THEN "line" ELSE "scan"
    /\ UNCHANGED <<source, rpc, mode, events>>
    /\ UNCHANGED passVars

\* The _.each loop of tokenizeFile taking the next line, and the head of
\* _tokenizeLine (lines 75-86); after the last line tokenizeFile returns.
TokenizeLine ==
    /\ rpc = "lex" /\ lpc = "line"
    /\ IF lineNumber >= Len(Split(source))
       THEN /\ lpc' = "done"
            /\ UNCHANGED <<lineNumber, string, index, normalToken,
                           startIndex, firstToken, lastToken, tokens>>
       ELSE LET line == Split(source)[lineNumber + 1]
                str == rstrip(line)
                c0 == [Chain EXCEPT !.startIndex = 0]
            IN  /\ lineNumber' = lineNumber + 1
                /\ string' = str
                /\ index' = 0
                /\ normalToken' = <<>>
                /\ IF str = <<>>
                   THEN /\ SetChain(_addToken(c0,
                                Token(<<>>, "BLANK_LINE", lineNumber + 1)))
                        /\ lpc' = "line"
                   ELSE /\ SetChain(c0)
                        /\ lpc' = "scan"
    /\ UNCHANGED <<source, rpc, mode, events>>
    /\ UNCHANGED passVars

\* _.find going on to the last matcher that matches
LastMatch(m, str, idx) ==
    LET ms == JAVASCRIPT_MATCHERS(m)
        hits == {k \in 1..Len(ms) :
                    /\ ~(ms[k].lineStart /\ idx > 0)
                    /\ RegexLen(ms[k].regex, Drop(str, idx)) # NoMatch}
    IN  IF hits = {} THEN 0 ELSE MaxOf(hits)

\* The matcher _.find returns at the current offset (0 when none matches).
FirstMatch(m, str, idx) ==
    LET ms == JAVASCRIPT_MATCHERS(m)
        hits == {k \in 1..Len(ms) :
                    /\ ~(ms[k].lineStart /\ idx > 0)
                    /\ RegexLen(ms[k].regex, Drop(str, idx)) # NoMatch}
    IN  IF hits = {} THEN 0 ELSE MinOf(hits)

\* One turn of the while loop in which a matcher matches (lines 88-116).
ScanMatch ==
    /\ rpc = "lex" /\ lpc = "scan"
    /\ index < Len(string)
    /\ \E k \in {FirstMatch(mode, string, index)} :
        /\ k # 0
        /\ \E matcher \in {JAVASCRIPT_MATCHERS(mode)[k]} :
           \E n \in {RegexLen(matcher.regex, Drop(string, index))} :
           \E c1 \in {IF normalToken # <<>>
                      THEN _addToken(Chain,
                             _createNormalToken(mode, normalToken, lineNumber))
                      ELSE Chain} :
           \E c2 \in {_addToken(c1,
                          Token(SubSeq(string, index + 1, index + n),
                                matcher.type, lineNumber))} :
              /\ SetChain(c2)
              /\ normalToken' = <<>>
              /\ mode' = IF matcher.resultMode # NoMode
                         THEN matcher.resultMode ELSE mode
              /\ index' = index + n
    /\ UNCHANGED <<source, rpc, lpc, lineNumber, string, events>>
    /\ UNCHANGED passVars

\* Variant: the unmatched character is skipped instead of collected.
ScanNoMatchDropsChar ==
    /\ rpc = "lex" /\ lpc = "scan"
    /\ index < Len(string)
    /\ FirstMatch(mode, string, index) = 0
    /\ index' = index + 1
    /\ UNCHANGED <<source, rpc, lpc, mode, lineNumber, string, startIndex,
                   firstToken, lastToken, tokens, events, normalToken>>
    /\ UNCHANGED passVars

\* One turn of the while loop in which no matcher matches (lines 121-124).
ScanNoMatch ==
    /\ rpc = "lex" /\ lpc = "scan"
    /\ index < Len(string)
    /\ FirstMatch(mode, string, index) = 0
    /\ normalToken' = Append(normalToken, string[index + 1])
    /\ index' = index + 1
    /\ UNCHANGED <<source, rpc, lpc, mode, lineNumber, string, startIndex,
                   firstToken, lastToken, tokens, events>>
    /\ UNCHANGED passVars

\* The loop is left and the pending normal token flushed (lines 127-130).
TokenizeLineEnd ==
    /\ rpc = "lex" /\ lpc = "scan"
    /\ index >= Len(string)
    /\ IF normalToken # <<>>
       THEN SetChain(_addToken(Chain,
                _createNormalToken(mode, normalToken, lineNumber)))
       ELSE SetChain(Chain)
    /\ normalToken' = <<>>
    /\ lpc' = "line"
    /\ UNCHANGED <<source, rpc, mode, lineNumber, string, index, events>>
    /\ UNCHANGED passVars

\* ------------------------------------------------------------ run()
\* getLastNonWhiteSpaceToken: the last token of the chain whose type IS
\* WHITESPACE or BLANK_LINE (the test in the source), or null
getLastNonWhiteSpaceToken(toks) ==
    LET hits == {h \in 1..Len(toks) :
                    toks[h].type \in {"WHITESPACE", "BLANK_LINE"}}
    IN  IF hits = {} THEN Null ELSE MaxOf(hits)

\* run(), lines 72-90, for a source given by the caller of a .js file:
\* tokenize() makes a new JavaScriptTokenizer and calls tokenizeFile.
RunTokenize ==
    /\ rpc = "start"
    /\ rpc' = "lex"
    /\ lpc' = "idle"
    /\ UNCHANGED <<source, mode, lineNumber, string, index, normalToken,
                   startIndex, firstToken, lastToken, tokens, events>>
    /\ UNCHANGED passVars

\* run(), lines 92-113.  ecmaMetadataPass.ecmaMetadataPass is not exported
\* by the pass module, so runMetadataPass calls process on undefined and
\* swallows the error (lines 47-51); runChecker has an empty body.
RunReport ==
    /\ rpc = "lex" /\ lpc = "done"
    /\ rpc' = "done"
    /\ events' = events
          \o << [call |-> "handleFile", token |-> firstToken] >>
          \o (IF mode # "TEXT_MODE"
              THEN << [call |-> "handleError", code |-> "FILE_IN_BLOCK",
                       mode |-> mode,
                       token |-> getLastNonWhiteSpaceToken(tokens)] >>
              ELSE << >>)
          \o << [call |-> "finishFile"] >>
    /\ UNCHANGED <<source, lpc, mode, lineNumber, string, index, normalToken,
                   startIndex, firstToken, lastToken, tokens>>
    /\ UNCHANGED passVars

\* --------------------------------------------------- inputs of run()
\* Texts are drawn from families: a fixed opening and up to MaxLen symbols
\* of a small alphabet.
TextFamilies == {
    << <<>>, {"a", " ", "/", "*", "\n"} >>,
    << <<"/", "/">>, {"a", " ", "/", "\r", "\n"} >>,
    << <<"/", "*">>, {"a", " ", "/", "*", "\n"} >>,
    << <<>>, {"a", "'", "\"", "\\", "\n", "\f"} >>,
    << <<>>, {"a", "=", "/", ";", " "} >>,
    << <<"/", "*", "*">>, {"@", "param", " ", "\n", "*"} >>,
    << <<"/", "*", "*">>, {"*", "/", "{", "}", "@"} >>,
    << <<"function">>, {"a", "(", ")", " ", "\n"} >> }

TextInputs ==
    UNION { {f[1] \o t : t \in SeqsUpTo(f[2], MaxLen)} : f \in TextFamilies }

PassIdle ==
    /\ ppc = "idle"
    /\ token = Null
    /\ context = Null
    /\ lastCode = Null
    /\ contexts = <<>>
    /\ metadata = <<>>
    /\ errorToken = Null
    /\ firstRun = <<>>
    /\ trk = NoChecker
    /\ nav = NoCall
    /\ files = <<>>

InitLex ==
    /\ source \in TextInputs
    /\ rpc = "start"
    /\ lpc = "idle"
    /\ mode = NoMode
    /\ lineNumber = 0
    /\ string = <<>>
    /\ index = 0
    /\ normalToken = <<>>
    /\ startIndex = 0
    /\ firstToken = Null
    /\ lastToken = Null
    /\ tokens = <<>>
    /\ events = <<>>
    /\ PassIdle

NextLex ==
    \/ RunTokenize
    \/ tokenizeFile
    \/ TokenizeLine
    \/ ScanMatch
    \/ ScanNoMatch
    \/ TokenizeLineEnd
    \/ RunReport

SpecLex == InitLex /\ [][NextLex]_vars

\* Weak fairness of the next step: run() is one sequential call that keeps
\* executing until it returns.
SpecLexFair == SpecLex /\ WF_vars(NextLex)

\* --------------------------------------------------- chain readers
\* The token handles in chain order, following next from the given head.
RECURSIVE directIterator(_, _)
directIterator(toks, h) ==
    IF h = Null THEN <<>>
    ELSE <<h>> \o directIterator(toks, toks[h].next)

RECURSIVE ConcatStrings(_, _)
ConcatStrings(toks, order) ==
    IF order = <<>> THEN <<>>
    ELSE toks[order[1]].string \o ConcatStrings(toks, Drop(order, 1))

RECURSIVE SelectLine(_, _, _)
SelectLine(toks, order, ln) ==
    IF order = <<>> THEN <<>>
    ELSE (IF toks[order[1]].lineNumber = ln THEN <<order[1]>> ELSE <<>>)
         \o SelectLine(toks, Drop(order, 1), ln)

RECURSIVE JoinStripped(_)
JoinStripped(lines) ==
    IF lines = <<>> THEN <<>>
    ELSE rstrip(lines[1]) \o JoinStripped(Drop(lines, 1))

\* ------------------------------------------------------------ C1
\* C1 (as claimed): when tokenizeFile has returned, the strings of the
\* tokens in chain order, concatenated, are the input text, line
\* terminators included.
C1_LosslessWithTerminators ==
    lpc = "done" =>
        ConcatStrings(tokens, directIterator(tokens, firstToken)) = source

\* C1 (amended): when tokenizeFile has returned, the tokens of line k,
\* concatenated in chain order, are line k of the input (the text between
\* two '\n') without its trailing '\r' and '\f' characters; so the whole
\* chain reproduces the input with the line terminators removed.
C1_LosslessPerLine ==
    lpc = "done" =>
        LET order == directIterator(tokens, firstToken)
            lines == Split(source)
        IN  /\ Len(order) = Len(tokens)
            /\ \A k \in 1..Len(lines) :
                  ConcatStrings(tokens, SelectLine(tokens, order, k))
                      = rstrip(lines[k])
            /\ ConcatStrings(tokens, order) = JoinStripped(lines)

\* A file of two lines, the first ending in a stripped '\r', with an
\* unmatched run and a matched token, has been tokenized.
C1_Witness ==
    /\ lpc = "done"
    /\ Len(Split(source)) >= 2
    /\ \E k \in 1..Len(Split(source)) :
          /\ rstrip(Split(source)[k]) # Split(source)[k]
          /\ rstrip(Split(source)[k]) # <<>>
    /\ Len(tokens) >= 2

\* ------------------------------------------------------------ C2
\* One turn of the scanning loop either moves the offset forward or leaves
\* line-comment mode (the empty match of ANYTHING).
ScanProgress ==
    (lpc = "scan" /\ lpc' = "scan") =>
        \/ index' > index
        \/ /\ index' = index
           /\ mode = "LINE_COMMENT_MODE"
           /\ mode' # "LINE_COMMENT_MODE"

\* C2: for every input text tokenizeFile (and run() around it) comes to
\* its end: every turn of the scanning loop makes progress, also when the
\* matcher matched the empty string, and the call returns.
C2_Terminates == [][ScanProgress]_vars /\ <>(rpc = "done")

\* The ANYTHING matcher has matched the empty string (an empty COMMENT
\* token is in the chain), scanning went on behind it on the same line,
\* and the run has come to its end.
C2_Witness ==
    /\ rpc = "done"
    /\ \E h \in 1..Len(tokens) :
          /\ tokens[h].type = "COMMENT"
          /\ tokens[h].string = <<>>
          /\ tokens[h].next # Null
          /\ tokens[tokens[h].next].lineNumber = tokens[h].lineNumber

\* ------------------------------------------------------------ C3
UnclosedBlockComment ==
    \E h \in 1..Len(tokens) :
        /\ tokens[h].type = "START_BLOCK_COMMENT"
        /\ \A j \in (h + 1)..Len(tokens) :
              tokens[j].type # "END_BLOCK_COMMENT"

\* C3: once a block comment is open and not closed the lexer is in block
\* comment mode, on every later line too; when run() ends in that state the
\* handler has seen handleFile, one FILE_IN_BLOCK finding, finishFile and
\* nothing else.
C3_UnclosedBlockComment ==
    UnclosedBlockComment =>
        /\ mode = "BLOCK_COMMENT_MODE"
        /\ rpc = "done" =>
              /\ Len(events) = 3
              /\ events[1].call = "handleFile"
              /\ events[2].call = "handleError"
              /\ events[2].code = "FILE_IN_BLOCK"
              /\ events[2].mode = "BLOCK_COMMENT_MODE"
              /\ events[3].call = "finishFile"

\* run() has ended on a text whose block comment was still open on a
\* second line.
C3_Witness ==
    /\ rpc = "done"
    /\ UnclosedBlockComment
    /\ lineNumber >= 2
    /\ \E h \in 1..Len(tokens) :
          tokens[h].type = "COMMENT" /\ tokens[h].lineNumber = 2

\* ============================================= EcmaMetaDataPass
\* ------------------------------------------------ token type lists
COMMENT_TYPES ==
    {"START_SINGLE_LINE_COMMENT", "COMMENT", "START_BLOCK_COMMENT",
     "START_DOC_COMMENT", "END_BLOCK_COMMENT", "END_DOC_COMMENT",
     "DOC_START_BRACE", "DOC_END_BRACE", "DOC_FLAG", "DOC_INLINE_FLAG",
     "DOC_PREFIX"}

NON_CODE_TYPES == COMMENT_TYPES \cup {"WHITESPACE", "BLANK_LINE"}

UNARY_OPERATORS ==
    { <<"!">>, <<"new">>, <<"delete">>, <<"typeof">>, <<"void">> }

UNARY_OK_OPERATORS ==
    { <<"-", "-">>, <<"+", "+">>, <<"-">>, <<"+">> } \cup UNARY_OPERATORS

UNARY_POST_OPERATORS == { <<"-", "-">>, <<"+", "+">> }

EXPRESSION_ENDER_TYPES ==
    {"NORMAL", "IDENTIFIER", "NUMBER", "SIMPLE_LVALUE", "END_BRACKET",
     "END_PAREN", "END_BLOCK", "SINGLE_QUOTE_STRING_END",
     "DOUBLE_QUOTE_STRING_END"}

isKeyword(h, keyword) ==
    tokens[h].type = "KEYWORD" /\ tokens[h].string = <<keyword>>

isOperator(h, operator) ==
    tokens[h].type = "OPERATOR" /\ tokens[h].string = <<operator>>

isCode(h) == tokens[h].type \notin NON_CODE_TYPES

\* Token.isAnyType (src/unnamed/part_010; the copy in src/common/tokens.js
\* reads an undeclared name instead of this.type)
isAnyType(h, tokenTypes) == tokens[h].type \in tokenTypes

\* opt_distance left out (null): the search runs to the end of the chain
NoDistance == -1

\* customSearch asking the end function before func
RECURSIVE customSearchEndFirst(_, _, _, _, _)
customSearchEndFirst(startToken, func, opt_endFunc, opt_distance, opt_reverse) ==
    IF startToken = Null \/ ~(opt_distance = NoDistance \/ opt_distance > 0)
    THEN Null
    ELSE LET next == IF opt_reverse THEN tokens[startToken].previous
                     ELSE tokens[startToken].next
         IN  IF next # Null /\ next \in opt_endFunc THEN Null
             ELSE IF next # Null /\ next \in func THEN next
             ELSE customSearchEndFirst(next, func, opt_endFunc,
                               IF opt_distance = NoDistance THEN NoDistance
                               ELSE opt_distance - 1,
                               opt_reverse)

\* tokenUtil.customSearch.  func and opt_endFunc are given by the set of
\* the tokens they answer true for (no end function: the empty set).
RECURSIVE customSearch(_, _, _, _, _)
customSearch(startToken, func, opt_endFunc, opt_distance, opt_reverse) ==
    IF startToken = Null \/ ~(opt_distance = NoDistance \/ opt_distance > 0)
    THEN Null
    ELSE LET next == IF opt_reverse THEN tokens[startToken].previous
                     ELSE tokens[startToken].next
         IN  IF next # Null /\ next \in func THEN next
             ELSE IF next # Null /\ next \in opt_endFunc THEN Null
             ELSE customSearch(next, func, opt_endFunc,
                               IF opt_distance = NoDistance THEN NoDistance
                               ELSE opt_distance - 1,
                               opt_reverse)

\* The tokens function(token) {return token.isAnyType(tokenTypes)} and its
\* negation answer true for
OfTypes(tokenTypes) ==
    {h \in 1..Len(tokens) : isAnyType(h, tokenTypes)}

NotOfTypes(tokenTypes) ==
    {h \in 1..Len(tokens) : ~isAnyType(h, tokenTypes)}

searchExcept(h, tokenTypes) ==
    customSearch(h, NotOfTypes(tokenTypes), {}, NoDistance, FALSE)

\* ------------------------------------------------ contexts, metadata
BLOCK_TYPES ==
    {"ROOT", "BLOCK", "CASE_BLOCK", "FOR_GROUP_BLOCK", "IMPLIED_BLOCK"}

EcmaContext(contextType, startToken, opt_parent) ==
    [type |-> contextType, startToken |-> startToken, endToken |-> Null,
     parent |-> opt_parent, children |-> <<>>]

EcmaMetaData ==
    [lastCode |-> Null, context |-> Null, operatorType |-> "null",
     isImpliedSemicolon |-> FALSE, isImpliedBlock |-> FALSE,
     isImpliedBlockClose |-> FALSE]

\* The objects one call of _processToken works on: the contexts, the
\* current context, the metadata records, the exception raised so far
\* ("none", "ParseError", "TypeError") with its token, and the value
\* returned by the last pop.
PassState ==
    [ctxs |-> contexts, cur |-> context, meta |-> metadata, err |-> "none",
     errTok |-> Null, ret |-> Null]

Throw(st, kind, t) == [st EXCEPT !.err = kind, !.errTok = t]

\* Variant: the new context is not entered in its parent's children.
_addContextNoChild(st, contextType, t) ==
    [st EXCEPT !.ctxs = Append(st.ctxs,
                               EcmaContext(contextType, t, st.cur)),
               !.cur = Len(st.ctxs) + 1]

\* _addContext with _createContext, the EcmaContext constructor and
\* addChild; the comparator of the sort in addChild is handed contexts,
\* which have no lineNumber and no startIndex, and answers NaN for every
\* pair, so the sort leaves the order of insertion.
_addContext(st, contextType, t) ==
    IF st.err # "none" THEN st
    ELSE LET h == Len(st.ctxs) + 1
             linked == IF st.cur = Null THEN st.ctxs
                       ELSE [st.ctxs EXCEPT
                                ![st.cur].children = Append(@, h)]
         IN  [st EXCEPT !.ctxs = Append(linked,
                                   EcmaContext(contextType, t, st.cur)),
                        !.cur = h]

\* Variant: the pop stamps the end token on every context.
_popContextStampsAll(st, t) ==
    IF st.cur = Null THEN Throw(st, "TypeError", Null)
    ELSE [st EXCEPT
            !.ctxs = [c \in DOMAIN st.ctxs |->
                         [st.ctxs[c] EXCEPT !.endToken = t]],
            !.cur = st.ctxs[st.cur].parent,
            !.ret = st.cur,
            !.err = IF st.ctxs[st.cur].parent = Null
                    THEN "ParseError" ELSE "none",
            !.errTok = IF st.ctxs[st.cur].parent = Null THEN t ELSE Null]

_popContext(st, t) ==
    IF st.err # "none" THEN st
    ELSE IF st.cur = Null THEN Throw(st, "TypeError", Null)
    ELSE [st EXCEPT
            !.ctxs[st.cur].endToken = t,
            !.cur = st.ctxs[st.cur].parent,
            !.ret = st.cur,
            !.err = IF st.ctxs[st.cur].parent = Null
                    THEN "ParseError" ELSE "none",
            !.errTok = IF st.ctxs[st.cur].parent = Null THEN t ELSE Null]

RECURSIVE _popContextType(_, _, _)
_popContextType(st, stopTypes, t) ==
    LET p == _popContext(st, t)
    IN  IF p.err # "none" THEN p
        ELSE IF p.ctxs[p.ret].type \in stopTypes THEN p
        ELSE _popContextType(p, stopTypes, t)

_endStatement(st, t) ==
    LET p == _popContextType(st, {"STATEMENT"}, t)
    IN  IF p.err # "none" THEN p
        ELSE IF p.ctxs[p.cur].type = "IMPLIED_BLOCK"
        THEN _popContext([p EXCEPT !.meta[t].isImpliedBlockClose = TRUE], t)
        ELSE p

\* Variant: a statement opens in the body block of a switch as well.
OpenStatementInSwitch(st, t) ==
    IF st.cur = Null THEN Throw(st, "TypeError", Null)
    ELSE LET c == st.ctxs[st.cur]
         IN  IF c.type \in BLOCK_TYPES
             THEN _addContext(st, "STATEMENT", t)
             ELSE IF c.type = "ARRAY_LITERAL"
             THEN _addContext(st, "LITERAL_ELEMENT", t)
             ELSE st

\* ------------------------------------------------ _processContext
\* lines 357-369: a statement opens in a block, an element in an array
OpenStatement(st, t) ==
    IF st.cur = Null THEN Throw(st, "TypeError", Null)
    ELSE LET c == st.ctxs[st.cur]
         IN  IF c.type \in BLOCK_TYPES
             THEN IF c.parent = Null \/ st.ctxs[c.parent].type # "SWITCH"
                  THEN _addContext(st, "STATEMENT", t)
                  ELSE st
             ELSE IF c.type = "ARRAY_LITERAL"
             THEN _addContext(st, "LITERAL_ELEMENT", t)
             ELSE st

\* Variant: the implied block is opened without the flag.
ImpliedBlockUnflagged(st, t) == _addContext(st, "IMPLIED_BLOCK", t)

\* lines 401-402 and 417-418
ImpliedBlock(st, t) ==
    [_addContext(st, "IMPLIED_BLOCK", t) EXCEPT
        !.meta[t].isImpliedBlock = TRUE]

\* lines 380-407, END_PAREN
EndParen(st, t) ==
    LET r == _popContextType(st, {"GROUP", "FOR_GROUP_BLOCK"}, t)
    IN  IF r.err # "none" THEN r
        ELSE
        LET keyworkToken == r.meta[r.ctxs[r.ret].startToken].lastCode
        IN  IF keyworkToken = Null
               \/ tokens[keyworkToken].string
                     \notin { <<"if">>, <<"for">>, <<"while">> }
            THEN r
            ELSE
            LET nextCode == searchExcept(t, NON_CODE_TYPES)
                preKeywordToken == r.meta[keyworkToken].lastCode
            IN  IF nextCode = Null THEN Throw(r, "TypeError", Null)
                ELSE IF tokens[nextCode].type = "START_BLOCK" THEN r
                ELSE IF preKeywordToken = Null
                        \/ tokens[preKeywordToken].type # "END_BLOCK"
                THEN ImpliedBlock(r, t)
                ELSE
                LET opener == r.ctxs[r.meta[preKeywordToken].context]
                                  .startToken
                    before == r.meta[opener].lastCode
                IN  IF before = Null THEN Throw(r, "TypeError", Null)
                    ELSE IF tokens[before].string = <<"do">> THEN r
                    ELSE ImpliedBlock(r, t)

\* lines 411-419, the keyword else
ElseKeyword(st, t) ==
    LET nextCode == searchExcept(t, NON_CODE_TYPES)
    IN  IF nextCode = Null THEN Throw(st, "TypeError", Null)
        ELSE IF tokens[nextCode].type # "START_BLOCK"
                /\ (tokens[nextCode].type # "KEYWORD"
                      \/ tokens[nextCode].string # <<"if">>)
        THEN ImpliedBlock(st, t)
        ELSE st

\* lines 434-449, START_BLOCK
StartBlock(st, t) ==
    IF lastCode = Null THEN Throw(st, "TypeError", Null)
    ELSE IF \/ tokens[lastCode].type \in {"END_PAREN", "END_PARAMETERS"}
            \/ isKeyword(lastCode, "else")
            \/ isKeyword(lastCode, "do")
            \/ isKeyword(lastCode, "try")
            \/ isKeyword(lastCode, "finally")
            \/ /\ isOperator(lastCode, ":")
               /\ st.ctxs[st.meta[lastCode].context].type = "CASE_BLOCK"
    THEN _addContext(st, "BLOCK", t)
    ELSE _addContext(st, "OBJECT_LITERAL", t)

\* lines 450-456, END_BLOCK
EndBlock(st, t) ==
    LET p == _popContextType(st, {"BLOCK", "OBJECT_LITERAL"}, t)
    IN  IF p.err # "none" THEN p
        ELSE IF p.ctxs[p.cur].type = "SWITCH" THEN _popContext(p, t)
        ELSE p

\* lines 463-469, case and default
RECURSIVE CaseDefault(_, _)
CaseDefault(st, t) ==
    IF st.ctxs[st.cur].parent = Null THEN Throw(st, "TypeError", Null)
    ELSE IF st.ctxs[st.ctxs[st.cur].parent].type = "SWITCH" THEN st
    ELSE LET p == _popContext(st, t)
         IN  IF p.err # "none" THEN p
             ELSE IF p.ctxs[p.cur].parent = Null
             THEN Throw(p, "ParseError", t)
             ELSE CaseDefault(p, t)

\* Variant: the second ':' of a nested ternary leaves one context only.
ColonPopsOnce(st, t) ==
    LET c == st.ctxs[st.cur]
    IN  IF c.type = "OBJECT_LITERAL"
        THEN _addContext(st, "LITERAL_ELEMENT", t)
        ELSE IF c.type = "TERNARY_TRUE"
        THEN _addContext(_popContext(st, t), "TERNARY_FALSE", t)
        ELSE IF c.parent = Null THEN Throw(st, "TypeError", Null)
        ELSE IF c.type = "TERNARY_FALSE"
                /\ st.ctxs[c.parent].type = "TERNARY_TRUE"
        THEN _addContext(_popContext(st, t), "TERNARY_FALSE", t)
        ELSE IF st.ctxs[c.parent].type = "SWITCH"
        THEN _addContext(st, "CASE_BLOCK", t)
        ELSE st

\* lines 472-489, the operator ':'
Colon(st, t) ==
    LET c == st.ctxs[st.cur]
    IN  IF c.type = "OBJECT_LITERAL"
        THEN _addContext(st, "LITERAL_ELEMENT", t)
        ELSE IF c.type = "TERNARY_TRUE"
        THEN _addContext(_popContext(st, t), "TERNARY_FALSE", t)
        ELSE IF c.parent = Null THEN Throw(st, "TypeError", Null)
        ELSE IF c.type = "TERNARY_FALSE"
                /\ st.ctxs[c.parent].type = "TERNARY_TRUE"
        THEN _addContext(_popContext(_popContext(st, t), t),
                         "TERNARY_FALSE", t)
        ELSE IF st.ctxs[c.parent].type = "SWITCH"
        THEN _addContext(st, "CASE_BLOCK", t)
        ELSE st

\* Variant: the comma pops nothing.
CommaKeeps(st, t) == st

\* lines 493-499, the operator ','
RECURSIVE Comma(_, _)
Comma(st, t) ==
    IF st.err # "none" THEN st
    ELSE IF st.ctxs[st.cur].type \in
              {"VAR", "ARRAY_LITERAL", "OBJECT_LITERAL", "STATEMENT",
               "PARAMETERS", "GROUP"}
    THEN st
    ELSE Comma(_popContext(st, t), t)

\* _processContext; ret is the context it returns, Null for undefined
_processContext(st0, t) ==
    LET st == OpenStatement(st0, t)
        tokenType == tokens[t].type
        Undefined(s) == [s EXCEPT !.ret = Null]
    IN  IF st.err # "none" THEN st
        ELSE IF tokenType = "START_PAREN"
        THEN IF lastCode # Null /\ isKeyword(lastCode, "for")
             THEN Undefined(_addContext(st, "FOR_GROUP_BLOCK", t))
             ELSE Undefined(_addContext(st, "GROUP", t))
        ELSE IF tokenType = "END_PAREN" THEN EndParen(st, t)
        ELSE IF tokenType = "KEYWORD" /\ tokens[t].string = <<"else">>
        THEN Undefined(ElseKeyword(st, t))
        ELSE IF tokenType = "START_PARAMETERS"
        THEN Undefined(_addContext(st, "PARAMETERS", t))
        ELSE IF tokenType = "END_PARAMETERS"
        THEN _popContextType(st, {"PARAMETERS"}, t)
        ELSE IF tokenType = "START_BRACKET"
        THEN IF lastCode # Null
                /\ tokens[lastCode].type \in EXPRESSION_ENDER_TYPES
             THEN Undefined(_addContext(st, "INDEX", t))
             ELSE Undefined(_addContext(st, "ARRAY_LITERAL", t))
        ELSE IF tokenType = "END_BRACKET"
        THEN _popContextType(st, {"INDEX", "ARRAY_LITERAL"}, t)
        ELSE IF tokenType = "START_BLOCK" THEN Undefined(StartBlock(st, t))
        ELSE IF tokenType = "END_BLOCK" THEN EndBlock(st, t)
        ELSE IF isKeyword(t, "switch")
        THEN Undefined(_addContext(st, "SWITCH", t))
        ELSE IF tokenType = "KEYWORD"
                /\ tokens[t].string \in { <<"case">>, <<"default">> }
                /\ st.ctxs[st.cur].type # "OBJECT_LITERAL"
        THEN Undefined(CaseDefault(st, t))
        ELSE IF isOperator(t, "?")
        THEN Undefined(_addContext(st, "TERNARY_TRUE", t))
        ELSE IF isOperator(t, ":") THEN Undefined(Colon(st, t))
        ELSE IF isKeyword(t, "var")
        THEN Undefined(_addContext(st, "VAR", t))
        ELSE IF isOperator(t, ",") THEN Undefined(Comma(st, t))
        ELSE IF tokenType = "SEMICOLON"
        THEN Undefined(_endStatement(st, t))
        ELSE Undefined(st)

\* ------------------------------------------------ _processToken
\* Variant: a close-brace before the operator is not looked at.
_getOperatorTypeAfterBrace(meta, t) ==
    LET str == tokens[t].string
        last == meta[t].lastCode
    IN  IF str = <<"?">> THEN "ternary"
        ELSE IF str \in UNARY_OPERATORS THEN "unary"
        ELSE IF last = Null THEN "unary"
        ELSE IF str \in UNARY_POST_OPERATORS
                /\ tokens[last].type \in EXPRESSION_ENDER_TYPES
        THEN "unary_post"
        ELSE IF str \in UNARY_OK_OPERATORS
                /\ tokens[last].type \notin EXPRESSION_ENDER_TYPES
                /\ tokens[last].string \notin UNARY_POST_OPERATORS
        THEN "unary"
        ELSE "binary"

_getOperatorType(meta, t) ==
    LET str == tokens[t].string
        last == meta[t].lastCode
    IN  IF str = <<"?">> THEN "ternary"
        ELSE IF str \in UNARY_OPERATORS THEN "unary"
        ELSE IF last = Null \/ tokens[last].type = "END_BLOCK" THEN "unary"
        ELSE IF str \in UNARY_POST_OPERATORS
                /\ tokens[last].type \in EXPRESSION_ENDER_TYPES
        THEN "unary_post"
        ELSE IF str \in UNARY_OK_OPERATORS
                /\ tokens[last].type \notin EXPRESSION_ENDER_TYPES
                /\ tokens[last].string \notin UNARY_POST_OPERATORS
        THEN "unary"
        ELSE "binary"

\* Variant: no context lets a statement end.
_statementCouldEndNowhere(st) == FALSE

_statementCouldEndInContext(st) ==
    LET c == st.ctxs[st.cur]
    IN  \/ c.type \in {"STATEMENT", "VAR"}
        \/ /\ c.type = "TERNARY_FALSE"
           /\ st.ctxs[c.parent].type \in {"STATEMENT", "VAR"}

\* Variant: only the returned context counts.
OrElseFirst(a, b) == a

\* a || b on object references
OrElse(a, b) == IF a # Null THEN a ELSE b

\* lines 552-582: whether an implied semicolon follows token t
ImpliedSemicolonAfter(st, t) ==
    LET tok == tokens[t]
        nextCode == searchExcept(t, NON_CODE_TYPES)
        \* a context object compared with a type name: never equal
        isImpiedBlock == FALSE
        isLastCodeInLine ==
            isCode(t) /\ (nextCode = Null
                            \/ tokens[nextCode].lineNumber # tok.lineNumber)
        isContinuedIdentifier ==
            tok.type = "IDENTIFIER" /\ tok.string[Len(tok.string)] = "."
        isContinuedOperator ==
            tok.type = "OPERATOR"
                /\ st.meta[t].operatorType # "unary_post"
        isContinuedDot == tok.string = <<".">>
        nextCodeIsOperator ==
            nextCode # Null /\ tokens[nextCode].type = "OPERATOR"
        nextCodeIsDot ==
            nextCode # Null /\ tokens[nextCode].string = <<".">>
        isEndOfBlock ==
            tok.type = "END_BLOCK"
                /\ st.ctxs[st.meta[t].context].type # "OBJECT_LITERAL"
        isMultilineString == tok.type = "STRING_TEXT"
        isContinuedVarDecl ==
            /\ isKeyword(t, "var")
            /\ nextCode # Null
            /\ tokens[nextCode].type \in {"IDENTIFIER", "SIMPLE_LVALUE"}
            /\ tok.lineNumber < tokens[nextCode].lineNumber
        nextCodeIsBlock ==
            nextCode # Null /\ tokens[nextCode].type = "START_BLOCK"
    IN  /\ tok.type # "SEMICOLON"
        /\ isLastCodeInLine
        /\ _statementCouldEndInContext(st)
        /\ ~isMultilineString /\ ~isEndOfBlock /\ ~isContinuedVarDecl
        /\ ~isContinuedIdentifier /\ ~isContinuedOperator
        /\ ~isContinuedDot /\ ~nextCodeIsDot /\ ~nextCodeIsOperator
        /\ ~isImpiedBlock /\ ~nextCodeIsBlock

_processToken(st0, t) ==
    LET s1 == [st0 EXCEPT
                 !.meta = [h \in DOMAIN st0.meta \cup {t} |->
                              IF h = t THEN EcmaMetaData ELSE st0.meta[h]]]
        s2 == _processContext(s1, t)
        s3 == [s2 EXCEPT !.meta[t].context = OrElse(s2.ret, s2.cur),
                         !.meta[t].lastCode = lastCode]
        s4 == IF tokens[t].type = "OPERATOR"
              THEN [s3 EXCEPT !.meta[t].operatorType =
                                  _getOperatorType(s3.meta, t)]
              ELSE s3
    IN  IF s2.err # "none" THEN s2
        ELSE IF ImpliedSemicolonAfter(s4, t)
        THEN _endStatement(
                 [s4 EXCEPT !.meta[t].isImpliedSemicolon = TRUE], t)
        ELSE s4

\* ------------------------------------------------ process
\* new EcmaMetaDataPass() / reset(): the ROOT context, no token
reset ==
    /\ token' = Null
    /\ contexts' = << EcmaContext("ROOT", Null, Null) >>
    /\ context' = 1
    /\ lastCode' = Null

SetPass(r) ==
    /\ contexts' = r.ctxs
    /\ context' = r.cur
    /\ metadata' = r.meta

\* process(firstToken) is entered on the chain tokenizeFile returned
process ==
    /\ rpc = "lex" /\ lpc = "done" /\ ppc = "idle"
    /\ token' = firstToken
    /\ ppc' = "loop"
    /\ UNCHANGED <<context, lastCode, contexts, metadata, errorToken,
                   firstRun>>
    /\ UNCHANGED <<lexVars, tokens, trk, nav, files>>

\* One turn of the while loop of process (lines 513-521); an exception
\* leaves the loop with what had been assigned before it was raised.
ProcessToken ==
    /\ ppc = "loop" /\ token # Null
    /\ \E r \in {_processToken(PassState, token)} :
          /\ SetPass(r)
          /\ IF r.err = "none"
             THEN /\ lastCode' = IF isCode(token) THEN token ELSE lastCode
                  /\ token' = tokens[token].next
                  /\ UNCHANGED <<ppc, errorToken>>
             ELSE /\ ppc' = r.err
                  /\ errorToken' = r.errTok
                  /\ UNCHANGED <<token, lastCode>>
    /\ UNCHANGED firstRun
    /\ UNCHANGED <<lexVars, tokens, trk, nav, files>>

\* The pop to ROOT after the loop (lines 523-531): its ParseError is
\* swallowed, anything else is thrown on.
ProcessFinal ==
    /\ ppc = "loop" /\ token = Null
    /\ \E r \in {_popContextType(PassState, {"ROOT"}, token)} :
          /\ SetPass(r)
          /\ ppc' = IF r.err \in {"none", "ParseError"} THEN "done"
                    ELSE r.err
    /\ UNCHANGED <<token, lastCode, errorToken, firstRun>>
    /\ UNCHANGED <<lexVars, tokens, trk, nav, files>>

\* ------------------------------------------------ inputs of the pass
MaxTail == 3

\* Program texts are drawn from families: a fixed opening and up to
\* MaxTail symbols of a small alphabet.
CodeFamilies == {
    << <<"a", "[", "a">>, {",", "a", "]", ";", ")"} >>,
    << <<"a", ";", "{">>, {"a", ";", "}", "\n", ":"} >>,
    << <<"if", "(", "a", ")">>, {"a", ";", "\n", "else", "{"} >>,
    << <<"do", "{", "}", "while", "(">>, {"a", ")", ";", "\n", "{"} >>,
    << <<"switch", "(", "a", ")", "{", "case", " ", "a", ":">>,
       {"a", ";", "}", "default", ":"} >>,
    << <<"switch", "{", "}", "while", "(">>, {"a", ")", ";", "{", "}"} >>,
    << <<"a", "=", "a", "?">>, {"a", ":", "?", ";", "\n"} >>,
    << <<"case", " ">>, {"a", ":", ";", "}", "{"} >>,
    << <<"function", "(", "a", ")">>, {"{", "}", "a", ";", "\n"} >>,
    << <<"for", "(">>, {"a", ";", ")", "\n", "{"} >>,
    << <<"a", "\n">>, {"[", "a", "]", "(", ")"} >>,
    << <<>>, {"a", ".", "+", " ", "\n"} >>,
    << <<"var", " ", "a">>, {"=", "a", ",", "\n", "{"} >>,
    << <<>>, {"a", ")", "]", "}", "{"} >>,
    << <<"a">>, {"!", "+", "a", "*"} >>,
    << <<"a", ";", "{", "}">>, {",", "-", "a"} >>,
    << <<"a", "=", "1", "\n", "b", "=", "2", "\n">>, {" "} >>,
    << <<"if", " ", "(", "x", ")", " ", "foo", "(", ")", ";">>, {" "} >>,
    << <<"x", " ", "=", " ", "a", " ", "?", " ", "b", " ", "?", " ", "1",
         " ", ":", " ", "2", " ", ":", " ", "3">>, {";"} >>,
    << <<"var", " ", "a", " ", "=", " ", "{", "b", ":", " ", "1", ",", " ",
         "c", ":", " ", "2", "}", ";">>, {" "} >> }

CodeInputs ==
    UNION { {f[1] \o t : t \in SeqsUpTo(f[2], MaxTail)} : f \in CodeFamilies }

InitCtx ==
    /\ source \in CodeInputs
    /\ rpc = "start"
    /\ lpc = "idle"
    /\ mode = NoMode
    /\ lineNumber = 0
    /\ string = <<>>
    /\ index = 0
    /\ normalToken = <<>>
    /\ startIndex = 0
    /\ firstToken = Null
    /\ lastToken = Null
    /\ tokens = <<>>
    /\ events = <<>>
    /\ ppc = "idle"
    /\ token = Null
    /\ context = 1
    /\ lastCode = Null
    /\ contexts = << EcmaContext("ROOT", Null, Null) >>
    /\ metadata = <<>>
    /\ errorToken = Null
    /\ firstRun = <<>>
    /\ trk = NoChecker
    /\ nav = NoCall
    /\ files = <<>>

NextCtx ==
    \/ RunTokenize
    \/ tokenizeFile
    \/ TokenizeLine
    \/ ScanMatch
    \/ ScanNoMatch
    \/ TokenizeLineEnd
    \/ process
    \/ ProcessToken
    \/ ProcessFinal

SpecCtx == InitCtx /\ [][NextCtx]_vars

\* ------------------------------------------------ the comparison run
\* The chain with a SEMICOLON token put directly behind every token of
\* the given set, linked and indexed as _addToken does it.
RECURSIVE Reassemble(_, _, _)
Reassemble(c, h, flagged) ==
    IF h > Len(tokens) THEN c
    ELSE LET tok == tokens[h]
             fresh == c.lastToken = Null
                         \/ c.tokens[c.lastToken].lineNumber
                               # tok.lineNumber
             c0 == [c EXCEPT !.startIndex = IF fresh THEN 0 ELSE @]
             c1 == _addToken(c0, Token(tok.string, tok.type,
                                       tok.lineNumber))
             c2 == IF h \in flagged
                   THEN _addToken(c1, Token(<<";">>, "SEMICOLON",
                                            tok.lineNumber))
                   ELSE c1
         IN  Reassemble(c2, h + 1, flagged)

\* The isImpliedBlock flags of the tokens outside the given set, in
\* chain order.
RECURSIVE ImpliedBlockFlags(_, _)
ImpliedBlockFlags(h, inserted) ==
    IF h > Len(tokens) THEN <<>>
    ELSE (IF h \in inserted THEN <<>>
          ELSE << metadata[h].isImpliedBlock >>)
         \o ImpliedBlockFlags(h + 1, inserted)

\* What the two runs are compared on: the context types, the parent of
\* every context, and the implied-block flags of the original tokens.
TreeSummary(inserted) ==
    [types |-> [c \in DOMAIN contexts |-> contexts[c].type],
     parents |-> [c \in DOMAIN contexts |-> contexts[c].parent],
     blocks |-> ImpliedBlockFlags(1, inserted)]

ImpliedSemicolons ==
    {h \in 1..Len(tokens) : metadata[h].isImpliedSemicolon}

\* After a pass that returned: the explicit semicolons are inserted, the
\* summary of the first run is kept, and a new pass object is made for
\* the second run.
Rerun ==
    /\ ppc = "done" /\ firstRun = <<>>
    /\ ImpliedSemicolons # {}
    /\ \E c \in {Reassemble([tokens |-> <<>>, firstToken |-> Null,
                             lastToken |-> Null, startIndex |-> 0],
                            1, ImpliedSemicolons)} :
          /\ tokens' = c.tokens
          /\ firstToken' = c.firstToken
          /\ lastToken' = c.lastToken
          /\ startIndex' = c.startIndex
          /\ firstRun' = << [summary |-> TreeSummary({}),
                             inserted |->
                                {h \in 1..Len(c.tokens) :
                                    /\ c.tokens[h].type = "SEMICOLON"
                                    /\ h > 1
                                    /\ \E g \in ImpliedSemicolons :
                                          h = g + 1 + Cardinality(
                                                {f \in ImpliedSemicolons :
                                                    f < g})}] >>
    /\ reset
    /\ metadata' = <<>>
    /\ errorToken' = Null
    /\ ppc' = "idle"
    /\ UNCHANGED <<source, rpc, lpc, mode, lineNumber, string, index,
                   normalToken, events, trk, nav, files>>

NextIdem ==
    \/ NextCtx
    \/ Rerun

SpecIdem == InitCtx /\ [][NextIdem]_vars

\* ------------------------------------------------------------ C4
\* C4: when process has returned normally, every token reachable from
\* firstToken via next has a metadata record, and the context of that
\* record is a context of the tree (not null).
C4_EveryTokenHasMetadata ==
    ppc = "done" =>
        LET order == directIterator(tokens, firstToken)
        IN  /\ Len(order) = Len(tokens)
            /\ \A i \in 1..Len(order) :
                  /\ order[i] \in DOMAIN metadata
                  /\ metadata[order[i]].context \in DOMAIN contexts

\* process has returned on a chain with a non-code token and with a
\* closing paren, whose context is the one the pop returned.
C4_Witness ==
    /\ ppc = "done"
    /\ \E h \in 1..Len(tokens) : ~isCode(h)
    /\ \E h \in 1..Len(tokens) :
          /\ tokens[h].type = "END_PAREN"
          /\ contexts[metadata[h].context].endToken = h

\* ------------------------------------------------------------ C5
\* Position of a context's first token; ROOT starts before every token.
StartPos(c) == contexts[c].startToken

\* Position of a context's last token; a context left open at the end of
\* the chain (endToken null) reaches past the last token.
EndPos(c) ==
    IF contexts[c].endToken = Null THEN Len(tokens) + 1
    ELSE contexts[c].endToken

Roots == {c \in DOMAIN contexts : contexts[c].type = "ROOT"}

\* Every context but ROOT has one parent and stands once in the children of
\* that parent and in no other children list.
OneParentEach ==
    \A c \in DOMAIN contexts :
        IF c \in Roots THEN contexts[c].parent = Null
        ELSE /\ contexts[c].parent \in DOMAIN contexts
             /\ \A p \in DOMAIN contexts :
                   Cardinality({i \in DOMAIN contexts[p].children :
                                   contexts[p].children[i] = c})
                     = IF p = contexts[c].parent THEN 1 ELSE 0

RECURSIVE Stack(_, _)
Stack(ctxs, c) ==
    IF c = Null THEN {} ELSE {c} \cup Stack(ctxs, ctxs[c].parent)

EndTokenStable ==
    \A c \in DOMAIN contexts :
        /\ contexts[c].endToken # Null
              => contexts'[c].endToken = contexts[c].endToken
        /\ contexts'[c].endToken # contexts[c].endToken
              => /\ c \in Stack(contexts, context)
                 /\ c \notin Stack(contexts', context')
        /\ c \notin Stack(contexts, context)
              => c \notin Stack(contexts', context')

\* C6: in every step of the pass an end token that is set stays as it
\* is, an end token is only set on a context that leaves the stack in that
\* step, and a context that has left the stack is never on it (so never
\* the current context) again.
C6_EndTokenOnce == [][EndTokenStable]_vars

\* The pass is under way, two contexts have been ended on different
\* tokens and a third is still open.
C6_Witness ==
    /\ ppc = "loop"
    /\ \E c, d \in DOMAIN contexts :
          /\ contexts[c].endToken # Null
          /\ contexts[d].endToken # Null
          /\ contexts[c].endToken < contexts[d].endToken
    /\ Cardinality(Stack(contexts, context)) >= 3

\* ------------------------------------------------------------ C7
Openers ==
    {"START_PAREN", "START_BRACKET", "START_BLOCK", "START_PARAMETERS"}

Closers == {"END_PAREN", "END_BRACKET", "END_BLOCK", "END_PARAMETERS"}

CloserOf(opener) ==
    CASE opener = "START_PAREN" -> "END_PAREN"
      [] opener = "START_BRACKET" -> "END_BRACKET"
      [] opener = "START_BLOCK" -> "END_BLOCK"
      [] opener = "START_PARAMETERS" -> "END_PARAMETERS"

\* The contexts an opener of the given type opens.
OpenedBy(opener) ==
    CASE opener = "START_PAREN" -> {"GROUP", "FOR_GROUP_BLOCK"}
      [] opener = "START_BRACKET" -> {"INDEX", "ARRAY_LITERAL"}
      [] opener = "START_BLOCK" -> {"BLOCK", "OBJECT_LITERAL"}
      [] opener = "START_PARAMETERS" -> {"PARAMETERS"}

\* The brackets of the chain read with a stack, from token h on: whether
\* they are properly nested, and the pairs <<opener, closer>>.
RECURSIVE Brackets(_, _, _)
Brackets(h, open, pairs) ==
    IF h > Len(tokens) THEN [nested |-> open = <<>>, pairs |-> pairs]
    ELSE IF tokens[h].type \in Openers
    THEN Brackets(h + 1, <<h>> \o open, pairs)
    ELSE IF tokens[h].type \in Closers
    THEN IF open = <<>> \/ CloserOf(tokens[open[1]].type) # tokens[h].type
         THEN [nested |-> FALSE, pairs |-> pairs]
         ELSE Brackets(h + 1, Tail(open), pairs \cup {<<open[1], h>>})
    ELSE Brackets(h + 1, open, pairs)

BracketContexts ==
    {"GROUP", "FOR_GROUP_BLOCK", "INDEX", "ARRAY_LITERAL", "BLOCK",
     "OBJECT_LITERAL"}

\* Token h has been through _processToken.
Processed(h) ==
    /\ ppc \in {"loop", "done"}
    /\ token = Null \/ h < token

HasCaseOrDefault ==
    \E h \in 1..Len(tokens) :
        isKeyword(h, "case") \/ isKeyword(h, "default")

\* C7: on a chain whose parentheses, brackets and braces are properly
\* nested (and that has no case or default, which may raise a ParseError
\* of its own) no ParseError is raised, every closing token that has been
\* processed has ended the context its opener opened, and no context
\* opened by a bracket has been ended on another token than the closer of
\* its opener.
C7_MatchingCloser ==
    (lpc = "done" /\ Brackets(1, <<>>, {}).nested /\ ~HasCaseOrDefault) =>
        LET pairs == Brackets(1, <<>>, {}).pairs
        IN  /\ ppc # "ParseError"
            /\ \A pr \in pairs :
                  Processed(pr[2]) =>
                     \E c \in DOMAIN contexts :
                        /\ contexts[c].startToken = pr[1]
                        /\ contexts[c].type
                              \in OpenedBy(tokens[pr[1]].type)
                        /\ contexts[c].endToken = pr[2]
            /\ \A c \in DOMAIN contexts :
                  (contexts[c].type \in BracketContexts
                      /\ contexts[c].endToken # Null)
                    => <<contexts[c].startToken, contexts[c].endToken>>
                          \in pairs

\* ------------------------------------------------------------ C8
\* C8: when the pass has returned on the chain with the explicit
\* semicolons inserted, its tree has the context types, the parents and
\* the implied-block flags of the first run.
C8_Idempotent ==
    (ppc = "done" /\ firstRun # <<>>) =>
        TreeSummary(firstRun[1].inserted) = firstRun[1].summary

\* ------------------------------------------------------------ C9
\* A closing token without opener, or a case or default: in the widest
\* reading, any chain whose brackets are not properly nested or that has
\* a case or default keyword at all.
MayExhaustStack ==
    \/ ~Brackets(1, <<>>, {}).nested
    \/ HasCaseOrDefault

\* C9: a ParseError carries the token that was being processed when the
\* stack ran out, and process fails only on a chain with an unmatched
\* closing token or a case or default outside a switch: on every other
\* chain it returns normally.
C9_OnlyUnmatchedFails ==
    /\ ppc = "ParseError" => (token # Null /\ errorToken = token)
    /\ (lpc = "done" /\ ppc \in {"ParseError", "TypeError"})
          => MayExhaustStack

\* ------------------------------------------------------------ C10
\* C10: on every chain the tokenizer produces, process returns or raises
\* a ParseError; no other exception leaves it.
C10_OnlyParseError == ppc # "TypeError"

\* ============================================= token chain order
\* compare(token1, token2) of tokenutil.js
compare(token1, token2) ==
    IF token2.lineNumber # token1.lineNumber
    THEN token1.lineNumber - token2.lineNumber
    ELSE token1.startIndex - token2.startIndex

\* Total length of the tokens before position i of the chain order that
\* stand on the line of the token at position i.
RECURSIVE LengthBefore(_, _, _)
LengthBefore(order, i, j) ==
    IF j >= i THEN 0
    ELSE (IF tokens[order[j]].lineNumber = tokens[order[i]].lineNumber
          THEN tokens[order[j]].length ELSE 0)
         + LengthBefore(order, i, j + 1)

\* The links, line numbers and offsets of the chain (everything of C17
\* but the strict order).
ChainLinked ==
    LET order == directIterator(tokens, firstToken)
    IN  /\ Len(order) = Len(tokens)
        /\ \A i, j \in 1..Len(order) : i # j => order[i] # order[j]
        /\ tokens # <<>> => tokens[firstToken].previous = Null
        /\ \A i \in 1..Len(order) :
              /\ tokens[order[i]].lineNumber >= 1
              /\ tokens[order[i]].startIndex = LengthBefore(order, i, 1)
              /\ i < Len(order) =>
                    /\ tokens[order[i + 1]].previous = order[i]
                    /\ tokens[order[i]].lineNumber
                          <= tokens[order[i + 1]].lineNumber

\* ------------------------------------------------------------ C17
\* C17: when tokenizeFile has returned the chain is an acyclic doubly
\* linked list, the head has no previous token, line numbers start at 1
\* and do not decrease, every token starts at the total length of the
\* earlier tokens of its line, and compare(t, u) < 0 for every token t
\* and its successor u.
C17_ChainStrictlyOrdered ==
    lpc = "done" =>
        /\ ChainLinked
        /\ \A h \in 1..Len(tokens) :
              tokens[h].next # Null
                 => compare(tokens[h], tokens[tokens[h].next]) < 0

\* ============================================= three programs
\* The contexts of the given type, and the children of ROOT.
ContextsOfType(contextType) ==
    {c \in DOMAIN contexts : contexts[c].type = contextType}

ChildrenOf(c) ==
    {contexts[c].children[i] : i \in DOMAIN contexts[c].children}

\* The tokens with the given string.
TokensWithString(str) == {h \in 1..Len(tokens) : tokens[h].string = str}

\* Token h is the one process is about to hand to _processToken, or
\* the chain is through when h is Null.
AtToken(h) == ppc = "loop" /\ token = h

\* ------------------------------------------------------------ C12
TwoAssignments == <<"a", "=", "1", "\n", "b", "=", "2", "\n">>

\* C12 (as claimed): on the two lines a=1 and b=2, each ended by a newline,
\* the pass makes two STATEMENT contexts, both children of ROOT and the only
\* children of ROOT, ended on the tokens 1 and 2, and the
\* implied-semicolon flag is set on these two tokens and on no other.
C12_TwoImpliedSemicolons ==
    (source = TwoAssignments /\ ppc = "done") =>
        /\ Cardinality(ContextsOfType("STATEMENT")) = 2
        /\ ChildrenOf(1) = ContextsOfType("STATEMENT")
        /\ Cardinality(TokensWithString(<<"1">>)) = 1
        /\ Cardinality(TokensWithString(<<"2">>)) = 1
        /\ ImpliedSemicolons
              = TokensWithString(<<"1">>) \cup TokensWithString(<<"2">>)
        /\ {contexts[c].endToken : c \in ContextsOfType("STATEMENT")}
              = ImpliedSemicolons

\* C12 (amended): on the two lines a=1 and b=2, each ended by a newline,
\* the pass makes three STATEMENT contexts, all children of ROOT and the
\* only children of ROOT: two are ended on the tokens 1 and 2, which carry
\* the implied-semicolon flag and are the only tokens to do so, and the
\* third starts on the BLANK_LINE token of the empty line behind the last
\* newline and gets no end token.
C12_ThreeStatements ==
    (source = TwoAssignments /\ ppc = "done") =>
        /\ Cardinality(ContextsOfType("STATEMENT")) = 3
        /\ ChildrenOf(1) = ContextsOfType("STATEMENT")
        /\ Cardinality(TokensWithString(<<"1">>)) = 1
        /\ Cardinality(TokensWithString(<<"2">>)) = 1
        /\ ImpliedSemicolons
              = TokensWithString(<<"1">>) \cup TokensWithString(<<"2">>)
        /\ {contexts[c].endToken : c \in ContextsOfType("STATEMENT")}
              = ImpliedSemicolons \cup {Null}
        /\ \A c \in ContextsOfType("STATEMENT") :
              contexts[c].endToken = Null
                 => tokens[contexts[c].startToken].type = "BLANK_LINE"

\* The pass has returned on the two lines, with implied semicolons.
C12_Witness ==
    /\ source = TwoAssignments
    /\ ppc = "done"
    /\ ImpliedSemicolons # {}

\* ------------------------------------------------------------ C13
IfCall == <<"if", " ", "(", "x", ")", " ", "foo", "(", ")", ";">>

\* The closing paren of the condition: the first END_PAREN of the chain.
ConditionEnd ==
    MinOf({h \in 1..Len(tokens) : tokens[h].type = "END_PAREN"})

\* What both readings of C13 share: one IMPLIED_BLOCK context, with the
\* statement of foo(); as its only child, closed on the semicolon, which
\* carries the implied-block-close flag and is the only token to do so.
ImpliedBlockWraps ==
    /\ Cardinality(ContextsOfType("IMPLIED_BLOCK")) = 1
    /\ \A c \in ContextsOfType("IMPLIED_BLOCK") :
          /\ Len(contexts[c].children) = 1
          /\ contexts[contexts[c].children[1]].type = "STATEMENT"
          /\ \A h \in TokensWithString(<<"foo">>) :
                /\ contexts[contexts[c].children[1]].startToken <= h
                /\ metadata[h].context = contexts[c].children[1]
          /\ contexts[c].endToken # Null
          /\ tokens[contexts[c].endToken].type = "SEMICOLON"
          /\ contexts[contexts[c].children[1]].endToken
                = contexts[c].endToken
    /\ {h \in 1..Len(tokens) : metadata[h].isImpliedBlockClose}
          = {h \in 1..Len(tokens) : tokens[h].type = "SEMICOLON"}

VarObject ==
    <<"var", " ", "a", " ", "=", " ", "{", "b", ":", " ", "1", ",", " ",
      "c", ":", " ", "2", "}", ";">>

\* C14: on var a = {b: 1, c: 2}; , when the '}' is next to be processed
\* the VAR context has one child, an OBJECT_LITERAL started on the '{',
\* whose children are two LITERAL_ELEMENT contexts started on the two ':',
\* the first ended on the ',' and the second still open; there is no
\* other OBJECT_LITERAL or LITERAL_ELEMENT; and once the ';' has been
\* processed the current context is ROOT.
C14_ObjectLiteral ==
    source = VarObject =>
        /\ (\E h \in 1..Len(tokens) :
               tokens[h].type = "END_BLOCK" /\ AtToken(h)) =>
              /\ Cardinality(ContextsOfType("VAR")) = 1
              /\ Cardinality(ContextsOfType("OBJECT_LITERAL")) = 1
              /\ Cardinality(ContextsOfType("LITERAL_ELEMENT")) = 2
              /\ \A v \in ContextsOfType("VAR") :
                    /\ ChildrenOf(v) = ContextsOfType("OBJECT_LITERAL")
                    /\ v \in Stack(contexts, context)
              /\ \A o \in ContextsOfType("OBJECT_LITERAL") :
                    /\ tokens[contexts[o].startToken].type = "START_BLOCK"
                    /\ ChildrenOf(o) = ContextsOfType("LITERAL_ELEMENT")
                    /\ Len(contexts[o].children) = 2
                    /\ tokens[contexts[contexts[o].children[1]].endToken]
                          .string = <<",">>
                    /\ contexts[contexts[o].children[2]].endToken = Null
              /\ \A e \in ContextsOfType("LITERAL_ELEMENT") :
                    tokens[contexts[e].startToken].string = <<":">>
        /\ (ppc = "loop" /\ token = Null /\ lpc = "done") =>
              /\ context = 1
              /\ \A c \in DOMAIN contexts \ {1} :
                    contexts[c].endToken # Null

\* The '}' of the object literal is next, with both elements made.
C14_Witness ==
    /\ source = VarObject
    /\ \E h \in 1..Len(tokens) : tokens[h].type = "END_BLOCK" /\ AtToken(h)
    /\ Cardinality(ContextsOfType("LITERAL_ELEMENT")) = 2

\* ================================================================
\* Documentation flags (src/unnamed/part_004, lines 33-235)
FLAG_DESCRIPTION_TYPES ==
    {"DOC_INLINE_FLAG", "COMMENT", "DOC_START_BRACE", "DOC_END_BRACE"}

FLAG_ENDING_TYPES == {"DOC_FLAG", "END_DOC_COMMENT"}

\* tokenUtil.customSearch going forward: the first later token whose type
\* is in tokenTypes, Null once a token of endTypes comes first
RECURSIVE searchUntil(_, _, _)
searchUntil(h, tokenTypes, endTypes) ==
    LET next == tokens[h].next
    IN  IF next = Null THEN Null
        ELSE IF isAnyType(next, tokenTypes) THEN next
        ELSE IF isAnyType(next, endTypes) THEN Null
        ELSE searchUntil(next, tokenTypes, endTypes)

search(h, tokenTypes) == searchUntil(h, tokenTypes, {})

\* tokenUtil.searchExcept with opt_reverse
RECURSIVE searchExceptReverse(_, _)
searchExceptReverse(h, tokenTypes) ==
    LET prev == tokens[h].previous
    IN  IF prev = Null THEN Null
        ELSE IF ~isAnyType(prev, tokenTypes) THEN prev
        ELSE searchExceptReverse(prev, tokenTypes)

\* The while loop of getMatchingEndBraceAndContents from token h on; a
\* read of a property of null raises TypeError.
RECURSIVE MatchingEndBrace(_, _, _, _)
MatchingEndBrace(h, openCount, closeCount, contents) ==
    IF openCount = closeCount
    THEN IF h = Null
         THEN [raised |-> TRUE, endToken |-> Null, contents |-> <<>>]
         ELSE [raised |-> FALSE, endToken |-> tokens[h].previous,
               contents |-> Take(contents, Len(contents) - 1)]
    ELSE IF h = Null
    THEN [raised |-> TRUE, endToken |-> Null, contents |-> <<>>]
    ELSE LET ty == tokens[h].type
             oc == IF ty = "DOC_START_BRACE" THEN openCount + 1
                   ELSE openCount
             cc == IF ty = "DOC_END_BRACE" THEN closeCount + 1
                   ELSE closeCount
             cs == IF ty # "DOC_PREFIX"
                   THEN Append(contents, tokens[h].string) ELSE contents
         IN  IF ty \in FLAG_ENDING_TYPES
             THEN [raised |-> FALSE, endToken |-> tokens[h].previous,
                   contents |-> Take(cs, Len(cs) - 1)]
             ELSE MatchingEndBrace(tokens[h].next, oc, cc, cs)

getMatchingEndBraceAndContents(startBrace) ==
    MatchingEndBrace(tokens[startBrace].next, 1, 0, <<>>)

\* Walks from the token after startToken; IDENTIFIER.test is unanchored
RECURSIVE getNextPartialIdentifierToken(_)
getNextPartialIdentifierToken(startToken) ==
    LET h == tokens[startToken].next
    IN  IF h = Null \/ tokens[h].type \in FLAG_ENDING_TYPES THEN Null
        ELSE IF /\ tokens[h].type = "COMMENT"
                /\ \E i \in 1..Len(tokens[h].string) :
                      tokens[h].string[i] \in IdentStart
        THEN h
        ELSE getNextPartialIdentifierToken(h)

\* /^\s*\*?\s*$/ on the line the token was cut from
EMPTY_COMMENT_LINE(h) ==
    LET line == Split(source)[tokens[h].lineNumber]
        r == Drop(line, RunLen(line, Space))
        s == IF At(r, 1) = "*" THEN Drop(r, 1) ELSE r
    IN  RunLen(s, Space) = Len(s)

isFirstInLine(h) ==
    \/ tokens[h].previous = Null
    \/ tokens[tokens[h].previous].lineNumber # tokens[h].lineNumber

\* Whether getEndTokenAndContents raises: its loop reads iterator.next.type
\* and iterator.lineNumber after stepping, whatever next is.
RECURSIVE getEndTokenAndContentsRaises(_, _)
getEndTokenAndContentsRaises(iterator, docDepth) ==
    LET ty == tokens[iterator].type
        next == tokens[iterator].next
    IN  IF ty \in FLAG_ENDING_TYPES /\ docDepth <= 0 THEN FALSE
        ELSE IF isFirstInLine(iterator) /\ EMPTY_COMMENT_LINE(iterator)
        THEN FALSE
        ELSE IF next = Null THEN TRUE
        ELSE getEndTokenAndContentsRaises(next,
                IF ty = "DOC_START_BRACE"
                      /\ tokens[next].type = "DOC_INLINE_FLAG"
                THEN docDepth + 1
                ELSE IF ty = "DOC_END_BRACE" /\ docDepth > 0
                THEN docDepth - 1
                ELSE docDepth)

HAS_DESCRIPTION ==
    { <<"define">>, <<"deprecated">>, <<"desc">>, <<"fileoverview">>,
      <<"license">>, <<"param">>, <<"preserve">>, <<"return">>,
      <<"supported">> }

HAS_TYPE ==
    { <<"define">>, <<"enum">>, <<"extends">>, <<"implements">>,
      <<"param">>, <<"return">>, <<"type">>, <<"suppress">>, <<"const">> }

TYPE_ONLY ==
    { <<"enum">>, <<"extends">>, <<"implements">>, <<"suppress">>,
      <<"type">>, <<"const">> }

HAS_NAME == { <<"param">> }

\* _s.ltrim(flagToken.string.trim(), '@')
flagType(flagToken) ==
    LET s == tokens[flagToken].string
        l == Drop(s, RunLen(s, Space))
        t == Take(l, Len(l) - MaxOf({j \in 0..Len(l) :
                                       \A i \in (Len(l) - j + 1)..Len(l) :
                                          l[i] \in Space}))
    IN  Drop(t, RunLen(t, {"@"}))

\* The type part of DocFlag (lines 160-186): the brace the type starts
\* at, and what getMatchingEndBraceAndContents makes of it
TypeBrace(flagToken) ==
    IF flagType(flagToken) \in HAS_TYPE
    THEN searchUntil(flagToken, {"DOC_START_BRACE"}, FLAG_ENDING_TYPES)
    ELSE Null

TypeMatch(brace) ==
    IF brace # Null THEN getMatchingEndBraceAndContents(brace)
    ELSE [raised |-> FALSE, endToken |-> Null, contents |-> <<>>]

\* The branch for a flag that takes a type only and has no brace raises
TypeOnlyRaises(flagToken, brace) ==
    LET next == tokens[flagToken].next
    IN  /\ flagType(flagToken) \in HAS_TYPE \cap TYPE_ONLY
        /\ brace = Null
        /\ \/ next = Null
           \/ /\ tokens[next].type \notin FLAG_ENDING_TYPES
              /\ tokens[flagToken].lineNumber = tokens[next].lineNumber
              /\ getEndTokenAndContentsRaises(next, 0)

\* The name part (lines 188-204), for the type m found at brace
NameToken(flagToken, brace, m) ==
    LET n0 == IF flagType(flagToken) \in HAS_NAME
              THEN getNextPartialIdentifierToken(flagToken) ELSE Null
    IN  IF m.contents # <<>> /\ n0 # Null
           /\ compare(tokens[n0], tokens[brace]) > 0
        THEN getNextPartialIdentifierToken(m.endToken)
        ELSE n0

\* The token the description is looked for behind (lines 211-222)
SearchStartToken(flagToken, m, nameToken) ==
    IF nameToken # Null /\ m.endToken # Null
    THEN IF compare(tokens[m.endToken], tokens[nameToken]) > 0
         THEN m.endToken ELSE nameToken
    ELSE IF nameToken # Null THEN nameToken
    ELSE IF m.contents # <<>> THEN m.endToken
    ELSE flagToken

\* The description part (lines 224-232) raises
DescriptionRaises(flagToken, searchStartToken) ==
    LET interestingToken ==
            search(searchStartToken,
                   FLAG_DESCRIPTION_TYPES \cup FLAG_ENDING_TYPES)
    IN  /\ flagType(flagToken) \in HAS_DESCRIPTION
        /\ \/ interestingToken = Null
           \/ /\ tokens[interestingToken].type \in FLAG_DESCRIPTION_TYPES
              /\ getEndTokenAndContentsRaises(interestingToken, 0)

DocFlagParts(flagToken, brace, m, nameToken, raised) ==
    [flagToken |-> flagToken, flagType |-> flagType(flagToken),
     raised |-> raised,
     typeStartToken |-> IF raised THEN Null ELSE brace,
     typeEndToken |-> IF raised THEN Null ELSE m.endToken,
     nameToken |-> IF raised THEN Null ELSE nameToken]

DocFlagNamed(flagToken, brace, m, nameToken) ==
    DocFlagParts(flagToken, brace, m, nameToken,
        \/ m.raised
        \/ TypeOnlyRaises(flagToken, brace)
        \/ DescriptionRaises(flagToken,
              SearchStartToken(flagToken, m, nameToken)))

DocFlagTyped(flagToken, brace, m) ==
    DocFlagNamed(flagToken, brace, m,
                 IF m.raised THEN Null ELSE NameToken(flagToken, brace, m))

\* new DocFlag(flagToken): raised tells that the constructor threw
DocFlag(flagToken) ==
    DocFlagTyped(flagToken, TypeBrace(flagToken),
                 TypeMatch(TypeBrace(flagToken)))

\* new DocComment(startToken)
DocComment(startToken) ==
    [startToken |-> startToken, endToken |-> Null, flags |-> <<>>,
     invalidated |-> FALSE]

\* _docComment while it is null
NoDocComment == DocComment(Null)

\* ================================================================
\* StateTracker (src/unnamed/part_004) and JavaScriptStateTracker
\* (src/unnamed/part_003).  trk holds the tracker object together with
\* the position of _executePass; fields that no handler reads back
\* (_functionsByName, _lastComment, _lastLine, _firstToken,
\* _documentedIdentifiers; name, isAssigned and the has* marks of a
\* function record) are left out.  closes and marks are history: the
\* function records popped so far and, per open function, the in-scope
\* stack as it was when the function was declared.
OBJECT_LITERAL == "o"

CODE == "c"

\* The value of an expression that names nothing (values['identifier'] of
\* a token whose values is the match array).
undefined == <<"#undefined">>

\* null where a string is expected, and where an array of strings is
null == <<"#null">>

nullArray == << null >>

Truthy(v) == v # <<>> /\ v # undefined /\ v # null

\* _.last
Last(s) == IF s = <<>> THEN undefined ELSE s[Len(s)]

\* Array.prototype.pop
Pop(s) == IF s = <<>> THEN s ELSE Take(s, Len(s) - 1)

\* String.prototype.split
RECURSIVE SplitOn(_, _)
SplitOn(s, sep) ==
    LET k == RunLenNot(s, {sep})
    IN  IF k = Len(s) THEN <<s>>
        ELSE <<Take(s, k)>> \o SplitOn(Drop(s, k + 1), sep)

\* _.union of two arrays: the values in order of first appearance
RECURSIVE Uniq(_)
Uniq(s) ==
    IF s = <<>> THEN <<>>
    ELSE LET r == Uniq(Take(s, Len(s) - 1))
         IN  IF \E i \in 1..Len(r) : r[i] = s[Len(s)] THEN r
             ELSE Append(r, s[Len(s)])

\* getParams on a value of _cumulativeParams (Null or a string)
getParams(cumulativeParams) ==
    IF ~Truthy(cumulativeParams) THEN <<>>
    ELSE LET params == SplitOn(SelectSeq(cumulativeParams,
                                         LAMBDA c : c \notin Space), ",")
         IN  [i \in 1..Len(params) |-> SplitOn(params[i], ":")[1]]

JsFunction(blockDepth, doc, startToken) ==
    [blockDepth |-> blockDepth, doc |-> doc, startToken |-> startToken,
     endToken |-> Null, parameters |-> nullArray]

\* The three tracker classes a checker can be given: the base class, the
\* JavaScript tracker as written, and the base class with getBlockType of
\* part_003 put on its prototype.
TrackerKinds == {"StateTracker", "JavaScriptStateTracker", "Concrete"}

\* The classes whose check a caller can run: the base class and the
\* JavaScript checker, which overrides check
CheckerClasses == {"CheckerBase", "JavaScriptStyleChecker"}

\* _blockStack of the JavaScript tracker before its reset assigns it
NoStack == <<Null>>

\* new StateTracker(DocFlag) / new JavaScriptStateTracker(): the
\* constructor stores the doc flag class and nothing else; the fields
\* reset assigns do not exist yet
NewTracker(kind) ==
    [kind |-> kind, pc |-> "new", tok |-> Null, stop |-> Null,
     deleted |-> {}, log |-> <<>>, raisedIn |-> "",
     blockDepth |-> 0, isBlockClose |-> FALSE, parentDepth |-> 0,
     functionStack |-> <<>>, cumulativeParams |-> null,
     blockTypes |-> <<>>, lastNonSpaceToken |-> Null,
     docComment |-> NoDocComment,
     variablesInScope |-> <<>>, closes |-> <<>>, marks |-> <<>>,
     scopeDepth |-> 0, blockStack |-> NoStack,
     checker |-> "CheckerBase", finalized |-> 0]

\* StateTracker.prototype.reset
StateTracker_reset(t) ==
    [t EXCEPT !.blockDepth = 0, !.isBlockClose = FALSE, !.parentDepth = 0,
              !.functionStack = <<>>, !.cumulativeParams = null,
              !.blockTypes = <<>>, !.lastNonSpaceToken = Null,
              !.docComment = NoDocComment, !.variablesInScope = <<>>,
              !.marks = <<>>]

Raise(t, where) == [t EXCEPT !.pc = "raised", !.raisedIn = where]

\* reset as the tracker's class resolves it: the JavaScript tracker reads
\* StateTracker.reset off the constructor, where it is not defined, after
\* it has assigned _scopeDepth and _blockStack (which nothing reads then)
TrackerReset(t) ==
    IF t.kind = "JavaScriptStateTracker"
    THEN Raise([t EXCEPT !.scopeDepth = 0, !.blockStack = <<>>], "reset")
    ELSE StateTracker_reset(t)

\* StateTracker.prototype.inDocComment
inDocComment(t) ==
    t.docComment # NoDocComment /\ t.docComment.endToken = Null

\* inFunction of the base class: an array is always truthy
inFunction(t) == TRUE

inObjectLiteral(t) ==
    /\ t.blockDepth # 0
    /\ t.blockTypes # <<>>
    /\ t.blockTypes[Len(t.blockTypes)] = OBJECT_LITERAL

\* JavaScriptStateTracker.prototype.getBlockType; "TypeError" when
\* lastCode is null and its type is read
getBlockType(h) ==
    LET lastCodeToken == searchExceptReverse(h, NON_CODE_TYPES)
    IN  IF lastCodeToken = Null THEN "TypeError"
        ELSE IF /\ tokens[lastCodeToken].type
                      \in {"END_PARAMETERS", "END_PAREN", "KEYWORD"}
                /\ ~isKeyword(lastCodeToken, "return")
        THEN CODE
        ELSE OBJECT_LITERAL

\* START_BLOCK branch of handleToken (lines 1032-1046)
HandleStartBlock(t, h) ==
    LET t1 == [t EXCEPT !.blockDepth = @ + 1]
        bt == IF t.kind = "StateTracker" THEN "TypeError"
              ELSE getBlockType(h)
        t2 == [t1 EXCEPT !.blockTypes = Append(@, bt)]
        n == Len(t2.functionStack)
    IN  IF bt = "TypeError" THEN Raise(t1, "handleToken")
        ELSE IF ~inFunction(t2) THEN t2
        ELSE IF n = 0 THEN Raise(t2, "handleToken")
        ELSE IF t2.blockDepth = t2.functionStack[n].blockDepth + 1
        THEN [t2 EXCEPT !.functionStack[Len(t2.functionStack)].parameters
                            = getParams(t2.cumulativeParams)]
        ELSE t2

\* DOC_FLAG / DOC_INLINE_FLAG branch (lines 1069-1076); addSuppression
\* walks the type of a suppress flag once more
HandleDocFlag(t, h) ==
    LET flag == DocFlag(h)
        brace == searchUntil(h, {"DOC_START_BRACE"}, {"DOC_FLAG"})
    IN  IF flag.raised \/ t.docComment = NoDocComment
        THEN Raise(t, "handleToken")
        ELSE IF /\ flag.flagType = <<"suppress">>
                /\ brace # Null
                /\ getMatchingEndBraceAndContents(brace).raised
        THEN Raise([t EXCEPT !.docComment.flags = Append(@, flag)],
                   "handleToken")
        ELSE [t EXCEPT !.docComment.flags = Append(@, flag)]

\* StateTracker.prototype.handleToken
handleToken(t0, h) ==
    LET t == [t0 EXCEPT !.isBlockClose = FALSE]
        type == tokens[h].type
        str == tokens[h].string
        nextVar == search(h, {"IDENTIFIER", "SIMPLE_LVALUE"})
    IN  IF type = "START_BLOCK" THEN HandleStartBlock(t, h)
        ELSE IF type = "END_BLOCK"
        THEN [t EXCEPT !.isBlockClose = ~inObjectLiteral(t),
                       !.blockDepth = @ - 1,
                       !.blockTypes = Pop(@)]
        ELSE IF type = "START_PAREN"
        THEN [t EXCEPT !.parentDepth = @ + 1]
        ELSE IF type = "END_PAREN"
        THEN [t EXCEPT !.parentDepth = @ - 1]
        ELSE IF type = "START_DOC_COMMENT"
        THEN [t EXCEPT !.docComment = DocComment(h)]
        ELSE IF type \in {"DOC_FLAG", "DOC_INLINE_FLAG"}
        THEN HandleDocFlag(t, h)
        ELSE IF type = "FUNCTION_DECLARATION"
        THEN [t EXCEPT
                !.functionStack =
                    Append(@, JsFunction(t.blockDepth,
                                         IF t.parentDepth = 0
                                         THEN t.docComment
                                         ELSE NoDocComment, h)),
                !.marks = Append(@, t.variablesInScope),
                !.variablesInScope = Append(@, <<>>)]
        ELSE IF type = "START_PARAMETERS"
        THEN [t EXCEPT !.cumulativeParams = <<>>]
        ELSE IF type = "PARAMETERS"
        THEN LET cum == (IF t.cumulativeParams = null THEN <<"null">>
                         ELSE t.cumulativeParams) \o str
             IN  [t EXCEPT !.cumulativeParams = cum,
                           !.variablesInScope = Uniq(@ \o getParams(cum))]
        ELSE IF type = "KEYWORD" /\ str = <<"return">>
        THEN IF searchExcept(h, NON_CODE_TYPES) = Null
             THEN Raise(t, "handleToken") ELSE t
        ELSE IF type = "KEYWORD" /\ str = <<"var">>
        THEN IF nextVar = Null THEN t
             ELSE IF tokens[nextVar].type = "SIMPLE_LVALUE"
             THEN [t EXCEPT !.variablesInScope = Append(@, undefined)]
             ELSE [t EXCEPT !.variablesInScope =
                               Append(@, tokens[nextVar].string)]
        ELSE t

\* The pop loop of handleAfterToken (lines 1243-1251)
RECURSIVE PopVariables(_)
PopVariables(variablesInScope) ==
    IF Truthy(Last(variablesInScope))
    THEN PopVariables(Pop(variablesInScope))
    ELSE Pop(variablesInScope)

\* isFunctionClose, for a stack _.last finds a record on
isFunctionClose(t) ==
    t.functionStack[Len(t.functionStack)].blockDepth = t.blockDepth

\* StateTracker.prototype.handleAfterToken
handleAfterToken(t, h) ==
    LET type == tokens[h].type
        cleared == [t EXCEPT !.docComment = NoDocComment]
        noted(x) == IF isAnyType(h, {"WHITESPACE", "BLANK_LINE"}) THEN x
                    ELSE [x EXCEPT !.lastNonSpaceToken = h]
        n == Len(t.functionStack)
    IN  IF type \in {"SEMICOLON", "END_PAREN"} THEN noted(cleared)
        ELSE IF type = "END_BRACKET" /\ t.lastNonSpaceToken = Null
        THEN Raise(t, "handleAfterToken")
        ELSE IF /\ type = "END_BRACKET"
                /\ tokens[t.lastNonSpaceToken].type
                      \notin {"SINGLE_QUOTE_STRING_END",
                              "DOUBLE_QUOTE_STRING_END"}
        THEN noted(cleared)
        ELSE IF type = "END_BLOCK"
        THEN IF ~inFunction(t) THEN noted(cleared)
             ELSE IF t.functionStack = <<>>
             THEN Raise(cleared, "handleAfterToken")
             ELSE IF isFunctionClose(t)
             THEN LET after == PopVariables(t.variablesInScope)
                      popped == [t.functionStack[n] EXCEPT !.endToken = h]
                      c == [cleared EXCEPT
                              !.functionStack = Pop(@),
                              !.variablesInScope = after,
                              !.marks = Pop(@),
                              !.closes =
                                  Append(@, [fn |-> popped,
                                             before |-> t.variablesInScope,
                                             atOpen |-> t.marks[n],
                                             after |-> after])]
                  IN  [c EXCEPT !.lastNonSpaceToken = h]
             ELSE noted(cleared)
        ELSE IF type = "END_PARAMETERS" /\ t.docComment # NoDocComment
        THEN noted(cleared)
        ELSE noted(t)

\* ================================================================
\* CheckerBase._executePass (src/lib/runner.js, lines 286-312)
MaxExtra == 1

MaxDeleted == 1

\* Program texts for the tracker: an opening and up to MaxExtra symbols
TrackerFamilies == {
    << <<"function", " ", "foo", "(", "a", ")", "{">>, {"}", "{", ";"} >>,
    << <<"function", " ", "foo", "(", " ", ")", "{", "}">>, {" "} >>,
    << <<"function", " ", "foo", "(", "a", ",", " ", "b", ":", "c", ")",
         "{", "}">>, {" "} >>,
    << <<"function", " ", "foo", "(", "a", ")", "{", "function", " ",
         "x", "(", "b", ")", "{", "}">>, {"}"} >>,
    << <<"function", " ", "foo", "(", "a", ")", "{", "var", " ", "x", " ",
         "=", " ", "1", ";">>, {"}"} >>,
    << <<"function", " ", "foo", "(", "a", ")", "{", "var", " ", "x",
         ";">>, {"}"} >>,
    << <<>>, {"{", "}", "(", "]"} >>,
    << <<"{">>, {"}"} >>,
    << <<"(">>, {")"} >>,
    << <<"/", "*", "*", " ", "@", "param", " ", "{", "a">>, {"}", " "} >>,
    << <<"/", "*", "*", " ", "@", "param", " ", "{", "a", "*", "/">>,
       {" "} >>,
    << <<"/", "*", "*", " ", "@", "param", " ", "{", "a", "}", " ", "b",
         " ", "*", "/">>, {" ", "a"} >>,
    << <<"function", " ", "foo", "(", ")", "{", "return">>,
       {";", "}", " "} >>,
    << <<"/", "*", "*", " ", "*", "/", " ", "@", "a", " ", "{">>,
       {"}", "("} >> }

TrackerInputs ==
    UNION { {f[1] \o t : t \in SeqsUpTo(f[2], MaxExtra)} :
               f \in TrackerFamilies }

\* The (stop token, deleted tokens) arguments of a pass: the deleted
\* tokens are a run of at most MaxDeleted tokens that follow each other
\* (a deleted line), and the stop token is any token when nothing is
\* deleted and one of the deleted tokens otherwise.
PassArguments ==
    LET handles == 1..Len(tokens)
        sets == {i..MinOf({i + k - 1, Len(tokens)}) :
                    i \in handles, k \in 0..MaxDeleted}
    IN  {<<Null, {}>>} \cup
        {<<s, d>> \in (handles \cup {Null}) \X sets :
            s = Null \/ d = {} \/ s \in d}

TrackerFrame ==
    UNCHANGED <<lexVars, tokens, ppc, token, context, lastCode, contexts,
                metadata, errorToken, firstRun, nav, files>>

\* new CheckerBase(errorHandler, lintRules, stateTracker), directly or
\* from the constructor of JavaScriptStyleChecker, on a tracker of one of
\* the classes; neither constructor looks at the tracker
CheckerBase ==
    /\ lpc = "done" /\ trk.pc = "none"
    /\ \E kind \in TrackerKinds, class \in CheckerClasses :
          trk' = [NewTracker(kind) EXCEPT !.checker = class]
    /\ TrackerFrame

\* _executePass up to the while loop: the reset of the tracker
_executePass ==
    /\ trk.pc = "new"
    /\ \E a \in PassArguments :
          \E r \in {TrackerReset(trk)} :
             trk' = [r EXCEPT !.tok = firstToken, !.stop = a[1],
                              !.deleted = a[2],
                              !.pc = IF r.pc = "raised" THEN "raised"
                                     ELSE "loop"]
    /\ TrackerFrame

\* The head of one turn of the loop (lines 290-301)
PassLoop ==
    /\ trk.pc = "loop"
    /\ trk' = IF trk.tok = Null THEN [trk EXCEPT !.pc = "done"]
              ELSE IF trk.tok \in trk.deleted
              THEN [trk EXCEPT !.tok = tokens[trk.tok].next]
              ELSE IF trk.tok = trk.stop THEN [trk EXCEPT !.pc = "done"]
              ELSE [trk EXCEPT !.pc = "handle"]
    /\ TrackerFrame

\* this._stateTracker.handleToken(token, ...)
PassHandleToken ==
    /\ trk.pc = "handle"
    /\ \E r \in {handleToken(trk, trk.tok)} :
          trk' = [r EXCEPT !.log = Append(@, <<"handleToken", trk.tok>>),
                           !.pc = IF r.pc = "raised" THEN "raised"
                                  ELSE "pass"]
    /\ TrackerFrame

\* passFunction.call(this, token); what the lint rules do is not modelled
PassFunction ==
    /\ trk.pc = "pass"
    /\ trk' = [trk EXCEPT !.log = Append(@, <<"passFunction", trk.tok>>),
                          !.pc = "after"]
    /\ TrackerFrame

\* this._stateTracker.handleAfterToken(token); token = token.next
PassHandleAfterToken ==
    /\ trk.pc = "after"
    /\ \E r \in {handleAfterToken(trk, trk.tok)} :
          trk' = [r EXCEPT
                    !.log = Append(@, <<"handleAfterToken", trk.tok>>),
                    !.tok = IF r.pc = "raised" THEN @
                            ELSE tokens[trk.tok].next,
                    !.pc = IF r.pc = "raised" THEN "raised" ELSE "loop"]
    /\ TrackerFrame

\* check after the lint pass has returned: CheckerBase.check calls
\* finalize (runner.js, line 255), JavaScriptStyleChecker.check calls it
\* when no stop token was given (part_002, lines 70-72); without
\* closurized namespaces there is no alias pass and no dependency pass,
\* and what initialize and finalize do is not modelled
check ==
    /\ trk.pc = "done"
    /\ trk' = [trk EXCEPT
                 !.finalized = IF \/ trk.checker = "CheckerBase"
                                  \/ trk.stop = Null
                               THEN @ + 1 ELSE @,
                 !.pc = "checked"]
    /\ TrackerFrame

InitTrk ==
    /\ source \in TrackerInputs
    /\ rpc = "start"
    /\ lpc = "idle"
    /\ mode = NoMode
    /\ lineNumber = 0
    /\ string = <<>>
    /\ index = 0
    /\ normalToken = <<>>
    /\ startIndex = 0
    /\ firstToken = Null
    /\ lastToken = Null
    /\ tokens = <<>>
    /\ events = <<>>
    /\ PassIdle

NextTrk ==
    \/ RunTokenize
    \/ tokenizeFile
    \/ TokenizeLine
    \/ ScanMatch
    \/ ScanNoMatch
    \/ TokenizeLineEnd
    \/ CheckerBase
    \/ _executePass
    \/ PassLoop
    \/ PassHandleToken
    \/ PassFunction
    \/ PassHandleAfterToken
    \/ check

SpecTrk == InitTrk /\ [][NextTrk]_vars

\* ------------------------------------------------------------ C19
\* A pass has a tracker and trk has the fields of one.
HasTracker == trk.pc # "none"

\* The tracker raised while the given handler was at a token of the type.
RaisedAt(where, tokenType) ==
    /\ trk.pc = "raised"
    /\ trk.raisedIn = where
    /\ trk.tok # Null
    /\ tokens[trk.tok].type = tokenType

\* C19: a tracker that does not implement getBlockType (the base class)
\* is turned down when it is constructed or when the pass starts; the
\* TypeError of the abstract method is never raised from handleToken
\* while a token is being handled.
C19_AbstractRejectedEarly ==
    HasTracker /\ trk.kind = "StateTracker"
        => ~RaisedAt("handleToken", "START_BLOCK")

\* ------------------------------------------------------------ C11
\* The pass is over the whole chain: no stop token, nothing deleted.
WholeChain == trk.stop = Null /\ trk.deleted = {}

\* C11: on a chain with properly nested brackets that the tracker has
\* handled to its end, block depth and parenthesis depth are 0 and the
\* function stack is empty; and handling an END_BLOCK while no function
\* is open does not raise.
C11_ScopeBalance ==
    HasTracker /\ WholeChain =>
        /\ trk.pc = "done" /\ Brackets(1, <<>>, {}).nested
              => /\ trk.blockDepth = 0
                 /\ trk.parentDepth = 0
                 /\ trk.functionStack = <<>>
        /\ ~(/\ RaisedAt("handleAfterToken", "END_BLOCK")
             /\ trk.functionStack = <<>>)

\* ------------------------------------------------------------ C16
\* The calls _executePass owes the chain: handleToken, the pass function
\* and handleAfterToken for each token in turn that is not deleted and
\* comes before the stop token.
RECURSIVE CallsOwed(_)
CallsOwed(h) ==
    IF h > Len(tokens) \/ (trk.stop # Null /\ h >= trk.stop) THEN <<>>
    ELSE IF h \in trk.deleted THEN CallsOwed(h + 1)
    ELSE << <<"handleToken", h>>, <<"passFunction", h>>,
            <<"handleAfterToken", h>> >> \o CallsOwed(h + 1)

ParametersText(s) ==
    ConcatStrings(tokens,
        SelectSeq([h \in 1..Len(tokens) |-> h],
                  LAMBDA h :
                      /\ h > s
                      /\ tokens[h].type = "PARAMETERS"
                      /\ \A g \in s..h :
                            tokens[g].type # "END_PARAMETERS"))

\* The names a parameter text declares: the comma-separated pieces of the
\* text without its whitespace, each cut at its ':'; none for a text
\* that holds no name at all.
DeclaredNames(text) ==
    LET bare == SelectSeq(text, LAMBDA c : c \notin Space)
        pieces == SplitOn(bare, ",")
    IN  IF bare = <<>> THEN <<>>
        ELSE [i \in 1..Len(pieces) |->
                 Take(pieces[i], RunLenNot(pieces[i], {":"}))]

\* handleToken was last called on the opening brace of the body of the
\* function on top of the stack.
BodyBraceHandled ==
    /\ HasTracker /\ WholeChain
    /\ trk.pc \in {"pass", "raised"}
    /\ trk.log # <<>>
    /\ trk.log[Len(trk.log)] = <<"handleToken", trk.tok>>
    /\ tokens[trk.tok].type = "START_BLOCK"
    /\ trk.functionStack # <<>>
    /\ trk.blockDepth
          = trk.functionStack[Len(trk.functionStack)].blockDepth + 1

\* C15: once the opening brace of a function body has been handled, the
\* parameter list of the function record is the list of the names in the
\* PARAMETERS tokens of that function, in order, without whitespace and
\* without ':Type' (the empty list when there is no name).
C15_ParameterList ==
    BodyBraceHandled =>
        LET fn == trk.functionStack[Len(trk.functionStack)]
        IN  fn.parameters = DeclaredNames(ParametersText(fn.startToken))

\* ------------------------------------------------------------ C20
\* C20: each time a function has been closed, the in-scope variable stack
\* is what it was just before that function's declaration pushed its
\* sentinel: the sentinel and the names pushed since are gone, whatever
\* was on the stack before is still there, in place.
C20_ScopeUnwind ==
    HasTracker /\ WholeChain =>
        \A i \in 1..Len(trk.closes) :
            trk.closes[i].after = trk.closes[i].atOpen

\* ------------------------------------------------------------ C18
\* From token h on, the brace that is depth levels open finds its
\* DOC_END_BRACE before the next flag, the end of the comment or the end
\* of the chain.
RECURSIVE BraceCloses(_, _)
BraceCloses(h, depth) ==
    IF h = Null THEN FALSE
    ELSE IF tokens[h].type \in FLAG_ENDING_TYPES THEN FALSE
    ELSE IF tokens[h].type = "DOC_START_BRACE"
    THEN BraceCloses(tokens[h].next, depth + 1)
    ELSE IF tokens[h].type = "DOC_END_BRACE"
    THEN depth = 1 \/ BraceCloses(tokens[h].next, depth - 1)
    ELSE BraceCloses(tokens[h].next, depth)

\* The flag at token h takes a type, and its type expression is opened
\* but not closed.
UnterminatedType(h) ==
    LET brace == searchUntil(h, {"DOC_START_BRACE"}, FLAG_ENDING_TYPES)
    IN  /\ flagType(h) \in HAS_TYPE
        /\ brace # Null
        /\ ~BraceCloses(tokens[brace].next, 1)

\* handleToken was last called on a flag token, in a pass over the whole
\* chain.
FlagHandled ==
    /\ HasTracker /\ WholeChain
    /\ trk.pc \in {"pass", "raised"}
    /\ trk.log # <<>>
    /\ trk.log[Len(trk.log)] = <<"handleToken", trk.tok>>
    /\ tokens[trk.tok].type \in {"DOC_FLAG", "DOC_INLINE_FLAG"}

\* C18: when the flag that has just been handled has an unterminated type
\* expression, building its DocFlag did not raise and the doc comment it
\* belongs to is marked invalidated.
C18_UnterminatedType ==
    FlagHandled /\ UnterminatedType(trk.tok) =>
        /\ trk.pc # "raised"
        /\ trk.docComment.invalidated

\* ------------------------------------------------------------ C21
\* The methods StateTracker.prototype defines that return a depth or
\* answer a question about the position (part_004:676-835)
StateTrackerPrototype ==
    {"reset", "inFunction", "inConstructor", "inInterfaceMethod",
     "inTopLevelFunction", "inAssignedFunction", "isFunctionOpen",
     "isFunctionClose", "inBlock", "isBlockClose", "inObjectLiteral",
     "inObjectLiteralDescendant", "inParantheses", "parenthesesDepth",
     "blockDepth", "functionDepth", "inTopLevel", "getBlockType",
     "getParams", "handleToken", "handleAfterToken"}

\* inTopLevel as the tracker's class resolves it; "TypeError" when the
\* call raises. The JavaScript tracker calls this.paranthesesDepth(),
\* the base class throws from its abstract method.
inTopLevel(t) ==
    IF t.kind = "JavaScriptStateTracker"
    THEN IF "paranthesesDepth" \in StateTrackerPrototype
         THEN IF t.scopeDepth = t.parentDepth THEN "true" ELSE "false"
         ELSE "TypeError"
    ELSE "TypeError"

\* C21: once reset() has been called on a JavaScript tracker, inTopLevel()
\* answers true exactly when the scope depth equals the parenthesis depth
\* and false otherwise, and does not raise.
C21_InTopLevel ==
    HasTracker /\ trk.kind = "JavaScriptStateTracker" /\ trk.pc # "new"
        => inTopLevel(trk) = IF trk.scopeDepth = trk.parentDepth
                             THEN "true" ELSE "false"

\* ------------------------------------------------ navigation helpers
MaxNav == 2
MaxDistance == 2

\* Program texts for the helpers: an opening and up to MaxNav symbols
NavFamilies == {
    << <<"a", ".">>, {"b", " ", ".", "\n"} >>,
    << <<"a", " ">>, {".", "b", "="} >>,
    << <<"var", " ", "a", " ", ".">>, {"b", " "} >>,
    << <<"var", " ", "a">>, {"=", "b", " "} >>,
    << <<"a", ".", "/", "*", "x", "*", "/">>, {"b", "."} >>,
    << <<"function", " ", "foo", "(", ")">>, {" ", "{"} >>,
    << <<"(", "a", ")", ".">>, {"b", " "} >>,
    << <<"a", "/", "/", "x", "\n", ".">>, {"b"} >> }

NavInputs ==
    UNION { {f[1] \o t : t \in SeqsUpTo(f[2], MaxNav)} : f \in NavFamilies }

\* The kind lists the callers in src pass to the searches
NavTypeSets ==
    {NON_CODE_TYPES, {"IDENTIFIER", "SIMPLE_LVALUE"}, {"WHITESPACE"}}

\* tokenUtil.isDot
isDot(h) == tokens[h].type = "NORMAL" /\ tokens[h].string = <<".">>

\* _s.endsWith(token.string, '.')
EndsWithDot(h) ==
    tokens[h].string # <<>> /\ Last(tokens[h].string) = "."

\* tokenUtil.getPreviousCodeToken
getPreviousCodeToken(h) ==
    customSearch(h, NotOfTypes(NON_CODE_TYPES), {}, NoDistance, TRUE)

\* The backward test looking at the token directly before only
NotFirstTokenAdjacent(prevToken) ==
    /\ prevToken # Null
    /\ tokens[prevToken].type = "IDENTIFIER" \/ isDot(prevToken)

\* The backward loop of getIdentifierForToken (lines 162-176) from
\* prevToken on: TRUE when it returns null
RECURSIVE NotFirstToken(_)
NotFirstToken(prevToken) ==
    IF prevToken = Null THEN FALSE
    ELSE IF tokens[prevToken].type = "IDENTIFIER" \/ isDot(prevToken)
    THEN TRUE
    ELSE IF \/ tokens[prevToken].type = "WHITESPACE"
            \/ isAnyType(prevToken, COMMENT_TYPES)
    THEN NotFirstToken(tokens[prevToken].previous)
    ELSE FALSE

\* The _.find over token.next.directIterator() (lines 197-231): the
\* symbol tokens collected from t on
RECURSIVE SymbolTokens(_, _)
SymbolTokens(t, symbolToken) ==
    IF t = Null THEN symbolToken
    ELSE IF tokens[t].type \in {"IDENTIFIER", "SIMPLE_LVALUE"}
    THEN IF EndsWithDot(Last(symbolToken))
         THEN SymbolTokens(tokens[t].next, Append(symbolToken, t))
         ELSE symbolToken
    ELSE IF isDot(t)
    THEN IF ~EndsWithDot(Last(symbolToken))
         THEN SymbolTokens(tokens[t].next, Append(symbolToken, t))
         ELSE symbolToken
    ELSE IF tokens[t].type \in NON_CODE_TYPES
    THEN SymbolTokens(tokens[t].next, symbolToken)
    ELSE symbolToken

\* tokenUtil.getIdentifierForToken; null is the sequence null
getIdentifierForToken(h) ==
    IF NotFirstToken(tokens[h].previous) THEN null
    ELSE IF tokens[h].type = "FUNCTION_NAME" THEN tokens[h].string
    ELSE IF /\ getPreviousCodeToken(h) # Null
            /\ isKeyword(getPreviousCodeToken(h), "var")
    THEN tokens[h].string
    ELSE ConcatStrings(tokens, SymbolTokens(tokens[h].next, <<h>>))

NavFrame ==
    UNCHANGED <<lexVars, tokens, ppc, token, context, lastCode, contexts,
                metadata, errorToken, firstRun, trk, files>>

\* One helper call and its outcome
Call(fn, startToken, func, endFunc, distance, reverse, result, text) ==
    [fn |-> fn, startToken |-> startToken, func |-> func,
     endFunc |-> endFunc, distance |-> distance, reverse |-> reverse,
     result |-> result, text |-> text, outcome |-> "returned"]

\* The two definitions of Token in the sources: the module the tokenizer
\* and javascripttokens.js require, and the copy in part_010
TokenModules == {"src/common/tokens.js", "src/unnamed/part_010"}

\* token.isAnyType(tokenTypes) as the module defines it: "true", "false",
\* or the error raised.  src/common/tokens.js reads token.type, where no
\* name token is declared; part_010 reads this.type.
isAnyTypeIn(module, h, tokenTypes) ==
    IF module = "src/common/tokens.js" THEN "ReferenceError"
    ELSE IF isAnyType(h, tokenTypes) THEN "true" ELSE "false"

\* search / searchExcept / searchUntil on tokens of the class the module
\* defines: customSearch asks the predicate about the first neighbour, if
\* there is one, and the predicate raises or answers
SearchOutcome(module, startToken, opt_reverse) ==
    LET next == IF opt_reverse THEN tokens[startToken].previous
                ELSE tokens[startToken].next
    IN  IF next = Null THEN "returned"
        ELSE IF isAnyTypeIn(module, next, {}) = "ReferenceError"
        THEN "ReferenceError"
        ELSE "returned"

\* tokenUtil.customSearch(startToken, func, opt_endFunc, opt_distance,
\* opt_reverse) on a token of the chain
CallCustomSearch ==
    /\ lpc = "done" /\ nav = NoCall
    /\ \E startToken \in 1..Len(tokens), T \in NavTypeSets,
          E \in NavTypeSets \cup {{}}, negate \in BOOLEAN,
          distance \in {NoDistance} \cup 0..MaxDistance,
          reverse \in BOOLEAN :
          \E func \in {IF negate THEN NotOfTypes(T) ELSE OfTypes(T)} :
             nav' = Call("customSearch", startToken, func, OfTypes(E),
                         distance, reverse,
                         customSearch(startToken, func, OfTypes(E),
                                      distance, reverse),
                         null)
    /\ NavFrame

\* tokenUtil.getIdentifierForToken(token) on a token of the chain
CallGetIdentifierForToken ==
    /\ lpc = "done" /\ nav = NoCall
    /\ \E h \in 1..Len(tokens) :
          nav' = Call("getIdentifierForToken", h, {}, {}, NoDistance, FALSE,
                      Null, getIdentifierForToken(h))
    /\ NavFrame

\* tokenUtil.search, searchExcept and searchUntil on a token of the
\* chain, the tokens being of either Token class
CallSearch ==
    /\ lpc = "done" /\ nav = NoCall
    /\ \E fn \in {"search", "searchExcept", "searchUntil"},
          module \in TokenModules, startToken \in 1..Len(tokens),
          T \in NavTypeSets, reverse \in BOOLEAN :
          \E c \in {Call(fn, startToken,
                         IF fn = "searchExcept" THEN NotOfTypes(T)
                         ELSE OfTypes(T),
                         IF fn = "searchUntil" THEN OfTypes({"OPERATOR"})
                         ELSE {},
                         NoDistance, reverse, Null, null)} :
             nav' = IF SearchOutcome(module, startToken, reverse)
                          = "returned"
                    THEN [c EXCEPT !.result =
                             customSearch(startToken, c.func, c.endFunc,
                                          NoDistance, reverse)]
                    ELSE [c EXCEPT !.outcome =
                             SearchOutcome(module, startToken, reverse)]
    /\ NavFrame

InitNav ==
    /\ source \in NavInputs
    /\ rpc = "start"
    /\ lpc = "idle"
    /\ mode = NoMode
    /\ lineNumber = 0
    /\ string = <<>>
    /\ index = 0
    /\ normalToken = <<>>
    /\ startIndex = 0
    /\ firstToken = Null
    /\ lastToken = Null
    /\ tokens = <<>>
    /\ events = <<>>
    /\ PassIdle

NextNav ==
    \/ RunTokenize
    \/ tokenizeFile
    \/ TokenizeLine
    \/ ScanMatch
    \/ ScanNoMatch
    \/ TokenizeLineEnd
    \/ CallCustomSearch
    \/ CallGetIdentifierForToken
    \/ CallSearch

SpecNav == InitNav /\ [][NextNav]_vars

\* ------------------------------------------------------------ C22
\* The tokens a search from startToken passes over before it reaches h
Between(startToken, h) ==
    {g \in 1..Len(tokens) : \/ startToken < g /\ g < h
                            \/ h < g /\ g < startToken}

\* The tokens the search may return: on the side of startToken the search
\* walks to, satisfying func, within the distance, with no token before
\* them on the way that satisfies func or the end function
Findable(c) ==
    {h \in 1..Len(tokens) :
        /\ IF c.reverse THEN h < c.startToken ELSE h > c.startToken
        /\ h \in c.func
        /\ c.distance # NoDistance =>
              Cardinality(Between(c.startToken, h)) + 1 <= c.distance
        /\ \A g \in Between(c.startToken, h) :
              g \notin c.func /\ g \notin c.endFunc}

PrecedingToken(h) ==
    LET before == {g \in 1..Len(tokens) :
                      /\ g < h
                      /\ tokens[g].type \notin
                            COMMENT_TYPES \cup {"WHITESPACE"}}
    IN  IF before = {} THEN Null ELSE MaxOf(before)

\* h is the first token of its identifier
FirstOfIdentifier(h) ==
    \/ PrecedingToken(h) = Null
    \/ ~(\/ tokens[PrecedingToken(h)].type = "IDENTIFIER"
         \/ isDot(PrecedingToken(h)))

\* The code tokens after h, in chain order
CodeAfter(h) ==
    SelectSeq([i \in 1..(Len(tokens) - h) |-> h + i],
              LAMBDA g : tokens[g].type \notin NON_CODE_TYPES)

\* t continues the identifier whose last token so far is prev: an
\* identifier after a trailing dot, a dot after anything else
Continues(prev, t) ==
    IF tokens[t].type \in {"IDENTIFIER", "SIMPLE_LVALUE"}
    THEN EndsWithDot(prev)
    ELSE isDot(t) /\ ~EndsWithDot(prev)

\* The text of h followed by its dot / identifier continuation tokens up
\* to the first other code token
WholeIdentifier(h) ==
    LET c == <<h>> \o CodeAfter(h)
        n == MaxOf({k \in 1..Len(c) :
                       \A j \in 2..k : Continues(c[j - 1], c[j])})
    IN  ConcatStrings(tokens, Take(c, n))

\* h names a function or is declared by var: the token before it in the
\* code is the keyword var
DeclaredHere(h) ==
    \/ tokens[h].type = "FUNCTION_NAME"
    \/ /\ getPreviousCodeToken(h) # Null
       /\ isKeyword(getPreviousCodeToken(h), "var")

C24_HelpersReturn ==
    nav # NoCall => nav.outcome = "returned"

\* ------------------------------------------------------------ C25
\* The tracker has just been reset by a pass that has not handled a token
JustReset == HasTracker /\ trk.pc \in {"loop", "raised"} /\ trk.log = <<>>

\* C25: reset() of the state tracker completes without raising and leaves
\* block depth, parenthesis depth and scope depth 0, the function,
\* block-type and in-scope-variable stacks empty and no doc comment
\* pending.
C25_ResetFresh ==
    JustReset =>
        /\ trk.pc # "raised"
        /\ trk.blockDepth = 0 /\ trk.parentDepth = 0 /\ trk.scopeDepth = 0
        /\ trk.functionStack = <<>> /\ trk.blockTypes = <<>>
        /\ trk.variablesInScope = <<>>
        /\ trk.docComment = NoDocComment

\* ------------------------------------------------ files in sequence
MaxFiles == 2

\* Texts handed to one tokenizer one after the other; several end inside
\* a string, a comment or a parameter list
FileTexts ==
    { <<>>, <<"a">>, <<"a", "\n", "b">>, <<"'", "a">>, <<"\"">>,
      <<"/", "*", "a">>, <<"/", "*", "*", " ", "@", "param">>,
      <<"function", " ", "foo", "(", "a">>, <<"/", "/", "a">>,
      <<"a", " ", "=", " ", "'", "b", "'", ";">>, <<"*", "/">>,
      <<".", "a">> }

\* What a caller of tokenizeFile can see of the call that has returned:
\* the chain, token by token, and the mode the tokenizer is left in
Returned ==
    [chain |-> [h \in 1..Len(tokens) |->
                   [type |-> tokens[h].type, string |-> tokens[h].string,
                    lineNumber |-> tokens[h].lineNumber,
                    startIndex |-> tokens[h].startIndex]],
     firstToken |-> firstToken, mode |-> mode]

\* The caller keeps what tokenizeFile returned and hands the next text to
\* the same Tokenizer object; nothing of the object is touched in between
TokenizeNextFile ==
    /\ rpc = "lex" /\ lpc = "done"
    /\ Len(files) < MaxFiles
    /\ files' = Append(files, [text |-> source, returned |-> Returned])
    /\ source' \in FileTexts
    /\ lpc' = "idle"
    /\ UNCHANGED <<rpc, mode, lineNumber, string, index, normalToken,
                   startIndex, firstToken, lastToken, tokens, events>>
    /\ UNCHANGED <<ppc, token, context, lastCode, contexts, metadata,
                   errorToken, firstRun, trk, nav>>

InitFiles ==
    /\ source \in FileTexts
    /\ rpc = "start"
    /\ lpc = "idle"
    /\ mode = NoMode
    /\ lineNumber = 0
    /\ string = <<>>
    /\ index = 0
    /\ normalToken = <<>>
    /\ startIndex = 0
    /\ firstToken = Null
    /\ lastToken = Null
    /\ tokens = <<>>
    /\ events = <<>>
    /\ PassIdle

NextFiles ==
    \/ RunTokenize
    \/ tokenizeFile
    \/ TokenizeLine
    \/ ScanMatch
    \/ ScanNoMatch
    \/ TokenizeLineEnd
    \/ TokenizeNextFile

SpecFiles == InitFiles /\ [][NextFiles]_vars

\* ------------------------------------------------------------ C26
\* C26: when tokenizeFile has returned, what it returned (kinds, strings,
\* line numbers, start offsets, final mode) is what every earlier call on
\* the same text returned, the first of which was made on the new
\* Tokenizer, whatever texts were tokenized in between.
C26_SameTextSameResult ==
    lpc = "done" =>
        \A i \in 1..Len(files) :
            files[i].text = source => files[i].returned = Returned

\* A text was tokenized again after a text that left the tokenizer
\* outside the text mode
C26_Witness ==
    /\ lpc = "done"
    /\ Len(files) = 2
    /\ files[1].text = source
    /\ files[2].returned.mode # "TEXT_MODE"
    /\ tokens # <<>>
    /\ Returned = files[1].returned

\* ------------------------------------------------------------ C28
\* The kind JAVASCRIPT_DEFAULT_TYPES declares for unmatched text of a mode
DeclaredDefault(m) ==
    IF \E kv \in JAVASCRIPT_DEFAULT_TYPES : kv[1] = m
    THEN (CHOOSE kv \in JAVASCRIPT_DEFAULT_TYPES : kv[1] = m)[2]
    ELSE "NORMAL"

\* C28: when a pending run of unmatched characters is flushed (before the
\* next matched token or at the end of the line), it becomes one token on
\* the line being scanned whose string is the run and whose kind is the
\* default kind declared for the current mode, COMMENT in the two
\* documentation comment modes and NORMAL in every other mode.
C28_DefaultKind ==
    [][lpc = "scan" /\ normalToken # <<>> /\ Len(tokens') > Len(tokens)
          => /\ tokens'[Len(tokens) + 1].string = normalToken
             /\ tokens'[Len(tokens) + 1].lineNumber = lineNumber
             /\ tokens'[Len(tokens) + 1].type = DeclaredDefault(mode)]_vars

\* ------------------------------------------------------------ C27
\* The matchers of the current mode that match at the current offset, a
\* line-start matcher counting at offset 0 only
Eligible ==
    {k \in 1..Len(JAVASCRIPT_MATCHERS(mode)) :
        /\ JAVASCRIPT_MATCHERS(mode)[k].lineStart => index = 0
        /\ RegexLen(JAVASCRIPT_MATCHERS(mode)[k].regex,
                    Drop(string, index)) # NoMatch}

\* The first of them in list order
Winner == JAVASCRIPT_MATCHERS(mode)[MinOf(Eligible)]

\* C27: in a turn of the scanning loop, if some matcher of the current
\* mode matches at the current offset, the first such matcher in list
\* order decides: one token of its kind with the text it matched is
\* emitted (after the pending unmatched run, if any), the mode becomes its
\* result mode if it has one and stays otherwise; a line-start matcher
\* counts at offset 0 only; if none matches, no token is emitted and the
\* mode stays.
C27_FirstMatchWins ==
    [][lpc = "scan" /\ index < Len(string)
          => IF Eligible = {}
             THEN tokens' = tokens /\ mode' = mode
             ELSE /\ Len(tokens') = Len(tokens)
                        + (IF normalToken = <<>> THEN 1 ELSE 2)
                  /\ tokens'[Len(tokens')].type = Winner.type
                  /\ tokens'[Len(tokens')].string =
                        SubSeq(string, index + 1,
                               index + RegexLen(Winner.regex,
                                                Drop(string, index)))
                  /\ mode' = IF Winner.resultMode # NoMode
                             THEN Winner.resultMode ELSE mode]_vars

\* The word function was taken by the declaration matcher, ahead of the
\* keyword and identifier matchers that match it too, and what follows
\* it was scanned in the function mode
C27_Witness ==
    /\ lpc = "done"
    /\ \E h \in 1..Len(tokens) :
          /\ tokens[h].type = "FUNCTION_DECLARATION"
          /\ Cardinality({k \in 1..Len(TEXT_MODE_MATCHERS) :
                 RegexLen(TEXT_MODE_MATCHERS[k].regex, tokens[h].string)
                    # NoMatch}) >= 2
          /\ h < Len(tokens) => tokens[h + 1].type
                                   \in {"WHITESPACE", "FUNCTION_NAME",
                                        "START_PARAMETERS"}

\* ------------------------------------------------------------ C29
\* The tokens of line ln
TokensOfLine(ln) == {h \in 1..Len(tokens) : tokens[h].lineNumber = ln}

\* Line ln of the text is empty once '\n', '\r' and '\f' are stripped
\* from its end
EmptyLine(ln) ==
    \A i \in 1..Len(Split(source)[ln]) :
        Split(source)[ln][i] \in {"\n", "\r", "\f"}

\* C29: of the lines tokenized so far, a line that is empty after its
\* trailing line terminators are stripped has exactly one token, a
\* BLANK_LINE with empty text, and every other line has at least one token
\* and no BLANK_LINE token (a line still being scanned may have none
\* yet); and the step that emits a BLANK_LINE token leaves the mode as it
\* was.
C29_BlankLines ==
    /\ [](\A ln \in 1..lineNumber :
             IF EmptyLine(ln)
             THEN /\ Cardinality(TokensOfLine(ln)) = 1
                  /\ \A h \in TokensOfLine(ln) :
                        /\ tokens[h].type = "BLANK_LINE"
                        /\ tokens[h].string = <<>>
             ELSE /\ \A h \in TokensOfLine(ln) :
                        tokens[h].type # "BLANK_LINE"
                  /\ ln < lineNumber \/ lpc \in {"line", "done"}
                        => TokensOfLine(ln) # {})
    /\ [][(Len(tokens') > Len(tokens)
             /\ tokens'[Len(tokens')].type = "BLANK_LINE")
                => mode' = mode]_vars

\* A blank line inside a block comment was tokenized and the comment mode
\* is the mode the file ends in
C29_Witness ==
    /\ lpc = "done"
    /\ mode = "BLOCK_COMMENT_MODE"
    /\ \E h \in 1..Len(tokens) :
          /\ tokens[h].type = "BLANK_LINE"
          /\ tokens[h].previous # Null
          /\ tokens[h].next # Null

\* ------------------------------------------------------------ C30
\* The operator tokens and the token each has before it in the code
Operators == {h \in 1..Len(tokens) : tokens[h].type = "OPERATOR"}

\* No code token precedes h, or the one that does is a close-brace
AfterNothingOrBrace(h) ==
    \/ metadata[h].lastCode = Null
    \/ tokens[metadata[h].lastCode].type = "END_BLOCK"

AfterExpressionEnder(h) ==
    /\ metadata[h].lastCode # Null
    /\ tokens[metadata[h].lastCode].type \in EXPRESSION_ENDER_TYPES

AfterPostfixOperator(h) ==
    /\ metadata[h].lastCode # Null
    /\ tokens[metadata[h].lastCode].string \in UNARY_POST_OPERATORS

\* The tag the claim gives operator h: the lookback applies to the
\* operators of the known-unary set only
ClaimedArity(h) ==
    IF tokens[h].string = <<"?">> THEN "ternary"
    ELSE IF tokens[h].string \notin UNARY_OK_OPERATORS THEN "binary"
    ELSE IF AfterNothingOrBrace(h) THEN "unary"
    ELSE IF /\ tokens[h].string \in UNARY_POST_OPERATORS
            /\ AfterExpressionEnder(h)
    THEN "unary_post"
    ELSE IF ~AfterExpressionEnder(h) /\ ~AfterPostfixOperator(h)
    THEN "unary"
    ELSE "binary"

\* The tag with the two cases the claim leaves out: '!', new, delete,
\* typeof and void are unary wherever they stand, and any operator with
\* nothing or a close-brace before it is unary
AmendedArity(h) ==
    IF tokens[h].string = <<"?">> THEN "ternary"
    ELSE IF tokens[h].string \in UNARY_OPERATORS \/ AfterNothingOrBrace(h)
    THEN "unary"
    ELSE ClaimedArity(h)

\* The pass has returned and tagged what it tags
Tagged == ppc = "done"

NestedTernary ==
    <<"x", " ", "=", " ", "a", " ", "?", " ", "b", " ", "?", " ", "1",
      " ", ":", " ", "2", " ", ":", " ", "3">>

\* The pass is on the right-nested ternary, with or without semicolons
OnNestedTernary ==
    /\ Len(source) >= Len(NestedTernary)
    /\ SubSeq(source, 1, Len(NestedTernary)) = NestedTernary
    /\ ppc \in {"loop", "done"}

\* The n-th token of the chain with the given string (Null if none)
NthWithString(str, n) ==
    LET S == {h \in 1..Len(tokens) : tokens[h].string = str}
    IN  IF Cardinality(S) < n THEN Null
        ELSE CHOOSE h \in S : Cardinality({g \in S : g < h}) = n - 1

\* The contexts ended on token h
EndedOn(h) == {c \in DOMAIN contexts : contexts[c].endToken = h}

\* The contexts of the given type that start on token h
StartedOn(contextType, h) ==
    {c \in DOMAIN contexts :
        contexts[c].type = contextType /\ contexts[c].startToken = h}

\* One turn of the loop of process handles a ':' and raises nothing
ColonStep == ppc = "loop" /\ token # Null /\ isOperator(token, ":")

\* The contexts whose end token the step sets
EndedByStep ==
    {c \in DOMAIN contexts : contexts'[c].endToken # contexts[c].endToken}

\* The step pushed one TERNARY_FALSE on the given parent, and made it
\* the current context
PushedTernaryFalse(parent) ==
    /\ Len(contexts') = Len(contexts) + 1
    /\ context' = Len(contexts')
    /\ contexts'[context'] = EcmaContext("TERNARY_FALSE", token, parent)
    /\ \E i \in DOMAIN contexts'[parent].children :
          contexts'[parent].children[i] = context'

\* C31: a ':' met in a TERNARY_TRUE ends that context and no other and
\* opens a TERNARY_FALSE as a child of the parent of the TERNARY_TRUE; a ':'
\* met in a TERNARY_FALSE whose parent is a TERNARY_TRUE ends these two
\* contexts and no other and opens a fresh TERNARY_FALSE as a child of the
\* parent of that TERNARY_TRUE.  On x = a ? b ? 1 : 2 : 3 the first ':'
\* therefore leaves a TERNARY_FALSE under the outer TERNARY_TRUE, the
\* second one a TERNARY_FALSE under the statement, and once a ';' has been
\* handled the current context is ROOT.
C31_NestedTernary ==
    /\ [][(ColonStep /\ contexts[context].type = "TERNARY_TRUE") =>
             /\ EndedByStep = {context}
             /\ contexts'[context].endToken = token
             /\ PushedTernaryFalse(contexts[context].parent)]_vars
    /\ [][(/\ ColonStep
           /\ contexts[context].type = "TERNARY_FALSE"
           /\ contexts[context].parent # Null
           /\ contexts[contexts[context].parent].type = "TERNARY_TRUE") =>
             /\ EndedByStep = {context, contexts[context].parent}
             /\ contexts'[context].endToken = token
             /\ contexts'[contexts[context].parent].endToken = token
             /\ PushedTernaryFalse(
                    contexts[contexts[context].parent].parent)]_vars
    /\ [](OnNestedTernary =>
            LET q1 == NthWithString(<<"?">>, 1)
                q2 == NthWithString(<<"?">>, 2)
                c1 == NthWithString(<<":">>, 1)
                c2 == NthWithString(<<":">>, 2)
                semi == NthWithString(<<";">>, 1)
            IN  /\ Processed(c1) =>
                    \E outer \in StartedOn("TERNARY_TRUE", q1) :
                       /\ StartedOn("TERNARY_TRUE", q2) = EndedOn(c1)
                       /\ \A f \in StartedOn("TERNARY_FALSE", c1) :
                             contexts[f].parent = outer
                       /\ Cardinality(StartedOn("TERNARY_FALSE", c1)) = 1
                /\ Processed(c2) =>
                    /\ EndedOn(c2) = StartedOn("TERNARY_FALSE", c1)
                                        \cup StartedOn("TERNARY_TRUE", q1)
                    /\ Cardinality(StartedOn("TERNARY_FALSE", c2)) = 1
                    /\ \A f \in StartedOn("TERNARY_FALSE", c2) :
                          contexts[contexts[f].parent].type = "STATEMENT"
                /\ (semi # Null /\ token = tokens[semi].next
                       /\ ppc = "loop") => context = 1)

\* The loop of process went through x = a ? b ? 1 : 2 : 3; and the
\* TERNARY_FALSE opened by the second ':' was ended on the ';'
C31_Witness ==
    /\ OnNestedTernary
    /\ ppc = "loop" /\ token = Null
    /\ NthWithString(<<";">>, 1) # Null
    /\ StartedOn("TERNARY_FALSE", NthWithString(<<":">>, 2))
          \subseteq EndedOn(NthWithString(<<";">>, 1))
    /\ StartedOn("TERNARY_FALSE", NthWithString(<<":">>, 2)) # {}
    /\ context = 1

\* ------------------------------------------------------------ C32
\* One turn of the loop of process hands a token to _processToken
TokenStep == ppc = "loop" /\ token # Null

\* The current context is block-like and its parent is no SWITCH
InBlockOutsideSwitch ==
    /\ contexts[context].type \in BLOCK_TYPES
    /\ \/ contexts[context].parent = Null
       \/ contexts[contexts[context].parent].type # "SWITCH"

\* The STATEMENT contexts the step makes
StatementsPushed ==
    {c \in DOMAIN contexts' \ DOMAIN contexts :
        contexts'[c].type = "STATEMENT"}

\* The body blocks of the switches: BLOCK contexts whose parent is a SWITCH
SwitchBodies ==
    {c \in DOMAIN contexts :
        /\ contexts[c].type = "BLOCK"
        /\ contexts[c].parent # Null
        /\ contexts[contexts[c].parent].type = "SWITCH"}

\* C32: handling a token pushes a STATEMENT context exactly when the
\* current context is block-like and its parent is no SWITCH, and it is
\* then the first context the step makes, started on the token and a child
\* of that block; no STATEMENT context ever has the body block of a SWITCH
\* as its parent; and a ':' met while that body block is the current
\* context opens a CASE_BLOCK as its child.
C32_StatementInBlock ==
    /\ [][TokenStep =>
             /\ StatementsPushed =
                   IF InBlockOutsideSwitch THEN {Len(contexts) + 1} ELSE {}
             /\ InBlockOutsideSwitch =>
                   contexts'[Len(contexts) + 1]
                      = [EcmaContext("STATEMENT", token, context) EXCEPT
                            !.endToken = contexts'[Len(contexts) + 1].endToken,
                            !.children = contexts'[Len(contexts) + 1].children]
          ]_vars
    /\ [](\A c \in DOMAIN contexts :
             contexts[c].type = "STATEMENT"
                => contexts[c].parent \notin SwitchBodies)
    /\ [][(TokenStep /\ isOperator(token, ":") /\ context \in SwitchBodies)
            => /\ Len(contexts') = Len(contexts) + 1
               /\ context' = Len(contexts')
               /\ contexts'[context'] = EcmaContext("CASE_BLOCK", token, context)
          ]_vars

\* The pass went through a switch whose body block has a CASE_BLOCK child
\* that holds a statement
C32_Witness ==
    /\ ppc = "done"
    /\ \E b \in SwitchBodies :
          \E c \in DOMAIN contexts :
             /\ contexts[c].type = "CASE_BLOCK"
             /\ contexts[c].parent = b
             /\ \E s \in DOMAIN contexts :
                   contexts[s].type = "STATEMENT" /\ contexts[s].parent = c

\* ------------------------------------------------------------ C34
\* check has come to its end: it returned, or the pass raised
CheckEnded == HasTracker /\ trk.pc \in {"checked", "raised"}

\* C34: finalize is called only once the lint pass has returned, and by
\* the end of a check it has been called once when no stop token was
\* given and not at all when one was given.
C34_FinalizeIffNoStop ==
    /\ HasTracker /\ trk.pc # "checked" => trk.finalized = 0
    /\ CheckEnded =>
          trk.finalized = IF trk.stop = Null THEN 1 ELSE 0

\* ------------------------------------------------------------ C35
\* handleToken has just returned from token h, in a pass that skips no
\* deleted token
Handled(h) ==
    /\ HasTracker /\ trk.pc = "pass" /\ trk.tok = h
    /\ trk.deleted = {}

\* Token h lies in a documentation comment: after a START_DOC_COMMENT
\* (or on it) with no END_DOC_COMMENT from there up to h
InsideDocComment(h) ==
    \E s \in 1..h :
       /\ tokens[s].type = "START_DOC_COMMENT"
       /\ \A e \in s..h : tokens[e].type # "END_DOC_COMMENT"

\* C35: once handleToken has handled a token of a documentation comment
\* that is not its END_DOC_COMMENT, inDocComment() is true; once it has
\* handled the END_DOC_COMMENT, the endToken of the pending DocComment is
\* that token and inDocComment() is false.
C35_InDocComment ==
    \A h \in 1..Len(tokens) :
       Handled(h) =>
          /\ InsideDocComment(h) => inDocComment(trk)
          /\ tokens[h].type = "END_DOC_COMMENT" =>
                /\ trk.docComment.endToken = h
                /\ ~inDocComment(trk)

\* ================================================================
\* The accessors of DocComment (src/unnamed/part_004) and handleToken of
\* the JavaScript tracker (src/unnamed/part_003), called on the objects
\* of a pass.  nav holds the last call: its argument, what came back,
\* and the number of calls made so far.
MaxCalls == 2

Reverse(s) == [i \in 1..Len(s) |-> s[Len(s) + 1 - i]]

\* DocComment.prototype.hasFlag
hasFlag(d, type) == \E i \in 1..Len(d.flags) : d.flags[i].flagType = type

\* DocComment.prototype.getFlag: Array.prototype.reverse turns _flags
\* over in place and returns it, and _.find answers its first match
\* (undefined, here Null, without one).  A flag is named by its token.
getFlag(d, type) ==
    LET reversed == Reverse(d.flags)
        hits == {i \in 1..Len(reversed) : reversed[i].flagType = type}
    IN  [doc |-> [d EXCEPT !.flags = reversed],
         result |-> IF hits = {} THEN Null
                    ELSE reversed[MinOf(hits)].flagToken]

\* DocComment.prototype.getDocFlags
getDocFlags(d) == d.flags

\* DocComment.prototype.orderedParams
orderedParams(d) ==
    LET params == SelectSeq(d.flags,
                      LAMBDA flag : /\ flag.flagType = <<"param">>
                                    /\ flag.nameToken # Null)
    IN  [i \in 1..Len(params) |-> tokens[params[i].nameToken].string]

\* The loop of getTargetToken (lines 552-586); falling off the chain
\* returns undefined, here Null
RECURSIVE TargetScan(_)
TargetScan(t) ==
    LET nextCodeToken ==
            customSearch(t, NotOfTypes(NON_CODE_TYPES), {}, NoDistance, FALSE)
    IN  IF t = Null THEN Null
        ELSE IF tokens[t].type
                   \in {"FUNCTION_NAME", "IDENTIFIER", "SIMPLE_LVALUE"}
        THEN t
        ELSE IF isKeyword(t, "var")
        THEN IF /\ nextCodeToken # Null
                /\ tokens[nextCodeToken].type = "SIMPLE_LVALUE"
             THEN nextCodeToken ELSE Null
        ELSE IF tokens[t].type = "FUNCTION_DECLARATION"
        THEN IF /\ nextCodeToken # Null
                /\ tokens[nextCodeToken].type = "FUNCTION_NAME"
             THEN nextCodeToken ELSE Null
        ELSE IF tokens[t].type \notin {"WHITESPACE", "BLANK_LINE", "START_PAREN"}
        THEN Null
        ELSE TargetScan(tokens[t].next)

\* DocComment.prototype.getTargetToken; this.endToken.next raises a
\* TypeError while endToken is null
getTargetToken(d) ==
    IF hasFlag(d, <<"fileoverview">>)
    THEN [outcome |-> "returned", result |-> Null]
    ELSE IF d.endToken = Null
    THEN [outcome |-> "raised", result |-> Null]
    ELSE [outcome |-> "returned",
          result |-> TargetScan(tokens[d.endToken].next)]

DocCall(fn, arg, result, outcome, n) ==
    [fn |-> fn, arg |-> arg, result |-> result, outcome |-> outcome,
     n |-> n]

Calls == IF nav = NoCall THEN 0 ELSE nav.n

\* The flag types the callers ask for
FlagTypesAsked == { <<"a">>, <<"b">>, <<"param">> }

\* The records of the function stack that hold the DocComment object d
\* get what is done to d
Aliased(functionStack, d, changed) ==
    [i \in 1..Len(functionStack) |->
        IF /\ functionStack[i].doc # NoDocComment
           /\ functionStack[i].doc.startToken = d.startToken
        THEN [functionStack[i] EXCEPT !.doc = changed]
        ELSE functionStack[i]]

DocFrame ==
    UNCHANGED <<lexVars, ppc, token, context, lastCode, contexts, metadata,
                errorToken, firstRun, files>>

\* A lint rule asks the pending comment for a flag:
\* state.getDocComment().getFlag(type)
CallGetFlag ==
    /\ HasTracker /\ trk.pc = "pass"
    /\ trk.docComment # NoDocComment
    /\ Calls < MaxCalls
    /\ \E type \in FlagTypesAsked :
          \E r \in {getFlag(trk.docComment, type)} :
             /\ trk' = [trk EXCEPT
                          !.docComment = r.doc,
                          !.functionStack =
                              Aliased(@, trk.docComment, r.doc)]
             /\ nav' = DocCall("getFlag", type, r.result, "returned",
                               Calls + 1)
    /\ UNCHANGED tokens
    /\ DocFrame

\* state.getDocComment().getTargetToken()
CallGetTargetToken ==
    /\ HasTracker /\ trk.pc = "pass"
    /\ trk.docComment # NoDocComment
    /\ Calls < MaxCalls
    /\ \E r \in {getTargetToken(trk.docComment)} :
          nav' = DocCall("getTargetToken", <<>>, r.result, r.outcome,
                         Calls + 1)
    /\ UNCHANGED <<tokens, trk>>
    /\ DocFrame

\* JavaScriptStateTracker.prototype.handleToken (part_003, lines 128-144)
\* called on a tracker, before or after its reset: the condition of the
\* first if assigns START_BLOCK to token.type and is true, the push
\* raises while _blockStack is undefined, the two tests that follow read
\* the new type and are false, and the call through
\* stateTracker.StateTracker.handleToken, which is undefined, raises
CallHandleToken ==
    /\ HasTracker /\ trk.kind = "JavaScriptStateTracker"
    /\ trk.pc \in {"new", "raised"}
    /\ Calls < MaxCalls
    /\ \E h \in 1..Len(tokens) :
          /\ tokens' = [tokens EXCEPT ![h].type = "START_BLOCK"]
          /\ trk' = IF trk.blockStack = NoStack THEN trk
                    ELSE [trk EXCEPT !.blockStack = Append(@, h)]
          /\ nav' = DocCall("handleToken", <<>>, h, "raised", Calls + 1)
    /\ DocFrame

DocFamilies == {
    << <<"/", "*", "*", " ", "@", "a", " ", "@", "b", " ", "@", "a", " ",
         "*", "/">>, {"x"} >>,
    << <<"/", "*", "*", " ", "@", "fileoverview", " ", "*", "/">>,
       {"x"} >>,
    << <<"/", "*", "*", " ", "@", "param", " ", "{", "a", "}", " ", "b",
         " ", "@", "param", " ", "{", "a", "}", " ", "x", " ", "*", "/">>,
       {" "} >>,
    << <<"/", "*", "*", " ", "*", "/", " ", "var", " ", "x">>,
       {"=", ";"} >>,
    << <<"/", "*", "*", " ", "*", "/", "\n", "function", " ", "foo", "(",
         ")">>, {"{", "}"} >>,
    << <<>>, {"{", "."} >> }

DocInputs ==
    UNION { {f[1] \o t : t \in SeqsUpTo(f[2], MaxExtra)} :
               f \in DocFamilies }

InitDoc ==
    /\ source \in DocInputs
    /\ rpc = "start"
    /\ lpc = "idle"
    /\ mode = NoMode
    /\ lineNumber = 0
    /\ string = <<>>
    /\ index = 0
    /\ normalToken = <<>>
    /\ startIndex = 0
    /\ firstToken = Null
    /\ lastToken = Null
    /\ tokens = <<>>
    /\ events = <<>>
    /\ PassIdle

NextDoc ==
    \/ RunTokenize
    \/ tokenizeFile
    \/ TokenizeLine
    \/ ScanMatch
    \/ ScanNoMatch
    \/ TokenizeLineEnd
    \/ CheckerBase
    \/ _executePass
    \/ PassLoop
    \/ PassHandleToken
    \/ PassFunction
    \/ PassHandleAfterToken
    \/ check
    \/ CallGetFlag
    \/ CallGetTargetToken
    \/ CallHandleToken

SpecDoc == InitDoc /\ [][NextDoc]_vars

\* ------------------------------------------------------------ C33
\* The flag of the given type that stands last in the comment (Null when
\* the comment has none)
LastOfType(d, type) ==
    LET S == {d.flags[i].flagToken :
                 i \in {j \in 1..Len(d.flags) : d.flags[j].flagType = type}}
    IN  IF S = {} THEN Null ELSE MaxOf(S)

GetFlagStep == nav' # nav /\ nav'.fn = "getFlag"

\* C33: every call of getFlag returns the flag of the asked type that
\* stands last in the comment, and leaves the flag list as getDocFlags()
\* and orderedParams() show it in the order it had.
C33_GetFlagLast ==
    [][GetFlagStep =>
          /\ nav'.result = LastOfType(trk.docComment, nav'.arg)
          /\ getDocFlags(trk'.docComment) = getDocFlags(trk.docComment)
          /\ orderedParams(trk'.docComment) = orderedParams(trk.docComment)
      ]_vars

\* ------------------------------------------------------------ C36
\* The END_DOC_COMMENT token that closes comment d (Null while the chain
\* has none behind the start of d)
ClosingToken(d) ==
    LET S == {e \in d.startToken..Len(tokens) :
                 tokens[e].type = "END_DOC_COMMENT"}
    IN  IF S = {} THEN Null ELSE MinOf(S)

\* The first token behind h that is no whitespace, comment or blank line
NextCode(h) ==
    customSearch(h, NotOfTypes(NON_CODE_TYPES), {}, NoDistance, FALSE)

\* The target as claimed: the name behind var, the name of the function,
\* or the target of a plain assignment, when it is what follows the comment
ClaimedTarget(e) ==
    LET t == NextCode(e)
        n == IF t = Null THEN Null ELSE NextCode(t)
    IN  IF t = Null THEN Null
        ELSE IF tokens[t].type = "SIMPLE_LVALUE" THEN t
        ELSE IF /\ isKeyword(t, "var")
                /\ n # Null
                /\ tokens[n].type \in {"SIMPLE_LVALUE", "IDENTIFIER"}
        THEN n
        ELSE IF /\ tokens[t].type = "FUNCTION_DECLARATION"
                /\ n # Null
                /\ tokens[n].type = "FUNCTION_NAME"
        THEN n
        ELSE Null

TargetStep == nav' # nav /\ nav'.fn = "getTargetToken"

\* C36: called on a comment the lexer closed, getTargetToken returns, and
\* what it returns is null for a fileoverview comment and otherwise the
\* target that follows the comment behind whitespace, comments and blank
\* lines only (null when something else follows).
C36_TargetToken ==
    [][(TargetStep /\ ClosingToken(trk.docComment) # Null) =>
          /\ nav'.outcome = "returned"
          /\ nav'.result =
                IF hasFlag(trk.docComment, <<"fileoverview">>) THEN Null
                ELSE ClaimedTarget(ClosingToken(trk.docComment))
      ]_vars

\* ------------------------------------------------------------ C37
\* The tokenizer stands between two lines, or behind the last one
AtLineBoundary == rpc \in {"lex", "done"} /\ lpc \in {"line", "done"}

\* The step enters line-comment mode
EntersLineComment ==
    mode # "LINE_COMMENT_MODE" /\ mode' = "LINE_COMMENT_MODE"

\* C37: the mode is never LINE_COMMENT_MODE between two lines or at the
\* end of the file; the mode is entered only by a step that lexes a '//'
\* with more of the line behind it; the step that follows in that mode
\* leaves it on the same line; and the mode reported with an unclosed
\* file is never LINE_COMMENT_MODE.
C37_LineCommentLeft ==
    /\ [](AtLineBoundary => mode # "LINE_COMMENT_MODE")
    /\ [][EntersLineComment =>
             /\ lastToken' # lastToken
             /\ tokens'[lastToken'].type = "START_SINGLE_LINE_COMMENT"
             /\ tokens'[lastToken'].string = <<"/", "/">>
             /\ lineNumber' = lineNumber
             /\ index' < Len(string)]_vars
    /\ [][(mode = "LINE_COMMENT_MODE" /\ rpc = "lex") =>
             mode' = "TEXT_MODE" /\ lineNumber' = lineNumber]_vars
    /\ [](\A i \in 1..Len(events) :
             events[i].call = "handleError"
                => events[i].mode # "LINE_COMMENT_MODE")

\* The file is through, and one of its lines but the last has a '//' with
\* a comment behind it
C37_Witness ==
    /\ rpc = "lex" /\ lpc = "done"
    /\ \E h \in 1..Len(tokens) :
          /\ tokens[h].type = "START_SINGLE_LINE_COMMENT"
          /\ tokens[h].next # Null
          /\ tokens[tokens[h].next].type = "COMMENT"
          /\ tokens[tokens[h].next].lineNumber = tokens[h].lineNumber
          /\ tokens[h].lineNumber < lineNumber

\* ------------------------------------------------------------ C38
DocKinds ==
    {"DOC_FLAG", "DOC_INLINE_FLAG", "DOC_START_BRACE", "DOC_END_BRACE",
     "DOC_PREFIX"}

\* Before token h stands a token of the opening type with no token of
\* the closing type between it and h
OpenBefore(h, opening, closing) ==
    \E s \in 1..(h - 1) :
       /\ tokens[s].type = opening
       /\ \A e \in (s + 1)..(h - 1) : tokens[e].type # closing

\* The chain as far as it is lexed keeps the doc tokens inside doc
\* comments and the parameter tokens inside parameter lists
ChainWellFormed ==
    \A h \in 1..Len(tokens) :
       /\ tokens[h].type \in DocKinds
             => OpenBefore(h, "START_DOC_COMMENT", "END_DOC_COMMENT")
       /\ tokens[h].type \in {"PARAMETERS", "END_PARAMETERS"}
             => OpenBefore(h, "START_PARAMETERS", "END_PARAMETERS")
       /\ tokens[h].type = "START_PARAMETERS"
             => OpenBefore(h, "FUNCTION_DECLARATION", "START_PARAMETERS")

\* handleToken is about to be called on trk.tok, in a pass over the chain
\* as the lexer made it (no token marked deleted)
AboutToHandle ==
    HasTracker /\ trk.pc = "handle" /\ trk.deleted = {}

\* C38: every DOC_FLAG, DOC_INLINE_FLAG, DOC_START_BRACE, DOC_END_BRACE
\* and DOC_PREFIX token has a START_DOC_COMMENT before it with no
\* END_DOC_COMMENT in between, every PARAMETERS and END_PARAMETERS token
\* a START_PARAMETERS with no END_PARAMETERS in between, and every
\* START_PARAMETERS a FUNCTION_DECLARATION; and when the tracker is handed
\* a doc flag a doc comment is pending, and when it is handed a
\* PARAMETERS token the parameter accumulator is a string.
C38_DocAndParameterTokens ==
    /\ ChainWellFormed
    /\ AboutToHandle =>
          /\ tokens[trk.tok].type \in {"DOC_FLAG", "DOC_INLINE_FLAG"}
                => trk.docComment # NoDocComment
          /\ tokens[trk.tok].type = "PARAMETERS"
                => trk.cumulativeParams # null

\* The tracker is handed the first flag of a pending doc comment whose
\* type in braces is lexed after it
C38_Witness ==
    /\ AboutToHandle
    /\ tokens[trk.tok].type = "DOC_FLAG"
    /\ trk.docComment # NoDocComment
    /\ trk.docComment.flags = <<>>
    /\ \E h \in (trk.tok + 1)..Len(tokens) :
          tokens[h].type = "DOC_END_BRACE"

\* ------------------------------------------------------------ C39
\* The tracker has been reset and has handled the tokens up to trk.tok
\* without raising
HandledSoFar ==
    /\ HasTracker
    /\ trk.pc \in {"pass", "after", "handle", "done", "checked"}

\* C39: in every state reached by handling tokens after reset(), also of
\* sequences with more closing than opening braces or parentheses, the
\* block depth is not negative and equals the length of the stack of
\* block types, and the parenthesis depth is not negative.
C39_DepthsNonNegative ==
    HandledSoFar =>
       /\ trk.blockDepth >= 0
       /\ trk.blockDepth = Len(trk.blockTypes)
       /\ trk.parentDepth >= 0

\* ------------------------------------------------------------ C40
\* A step in which handleToken or handleAfterToken of the tracker runs:
\* inside a pass, or called on the tracker directly
HandlerStep ==
    \/ HasTracker /\ trk.pc = "handle" /\ trk'.pc # "handle"
    \/ HasTracker /\ trk.pc = "after" /\ trk'.pc # "after"
    \/ nav' # nav /\ nav'.fn = "handleToken"

\* The step leaves the kind, text, line number and links of every token
\* as they were
TokenFieldsKept ==
    /\ Len(tokens') = Len(tokens)
    /\ \A h \in 1..Len(tokens) :
          /\ tokens'[h].type = tokens[h].type
          /\ tokens'[h].string = tokens[h].string
          /\ tokens'[h].lineNumber = tokens[h].lineNumber
          /\ tokens'[h].previous = tokens[h].previous
          /\ tokens'[h].next = tokens[h].next

\* The tokens the step pushed on the block-start stack were START_BLOCK
\* tokens when the handler was called
PushedStartBlocks ==
    \A i \in (Len(trk.blockStack) + 1)..Len(trk'.blockStack) :
       /\ trk'.blockStack[i] # Null
       /\ tokens[trk'.blockStack[i]].type = "START_BLOCK"

\* C40: handleToken and handleAfterToken of StateTracker and of
\* JavaScriptStateTracker never change the kind, text, line number or
\* previous/next links of a token, and the JavaScript tracker pushes on
\* its block-start stack only tokens that are START_BLOCK.
C40_HandlersKeepTokens ==
    [][HandlerStep => TokenFieldsKept /\ PushedStartBlocks]_vars

====
